---- MODULE Spec2Model ----
(***************************************************************************)
(* Verification model of type-correct (SamuelMarks/type-correct).          *)
(*                                                                         *)
(* The state machines of this module:                                      *)
(*   SpecBoundary : StructAnalyzer (file boundary classification and the   *)
(*                  field rewrite gate), StructAnalyzer.cpp                *)
(*   SpecFiles    : StructAnalyzer, the file queries alone                 *)
(*   SpecSolver   : TypeSolver (constraint graph, SCC solve),              *)
(*                  TypeSolver.cpp                                         *)
(*   SpecSolverAnyType : TypeSolver with candidates that are not integers  *)
(*   SpecMatcher  : TypeCorrectMatcher (match callbacks and the end of     *)
(*                  translation unit rewrite), TypeCorrect.cpp             *)
(*   SpecRerun    : the tool run on a unit and run again on its output     *)
(*   SpecMerge    : FactManager::MergeFacts, CTU/FactManager.cpp           *)
(*   SpecFactFile : FactManager::WriteFacts, ReadFacts and                 *)
(*                  IsConvergenceReached, CTU/FactManager.cpp              *)
(*   SpecMain     : main, its reduce step and its iterative mode,          *)
(*                  TypeCorrectMain.cpp                                    *)
(*   SpecRange    : TypeSolver::GetOptimalTypeForRange on ranges of        *)
(*                  64-bit values, TypeSolver.cpp                          *)
(*   SpecSolverChain : TypeSolver on chains of symbolic constraints as     *)
(*                  long as the pass limit of Solve                        *)
(* Each specification leaves the variables of the other machines at their  *)
(* idle values.                                                            *)
(***************************************************************************)
EXTENDS Integers, Sequences, FiniteSets, TLC

VARIABLES
  \* ---- StructAnalyzer ----
  AllowABIChanges,        \* StructAnalyzer::AllowABIChanges
  ForceRewrite,           \* StructAnalyzer::ForceRewrite
  fileKind,               \* the translation unit's files: FileID -> provenance
  fileIncluder,           \* FileID -> FileID of the includer (0: no include loc)
  BoundaryCache,          \* StructAnalyzer::BoundaryCache
  TruncationUnsafeFields, \* StructAnalyzer::TruncationUnsafeFields
  lastCall,               \* the last public call and what it returned
  \* ---- TypeSolver ----
  Nodes,                  \* TypeSolver::Nodes
  Adjacency,              \* TypeSolver::Adjacency
  SymbolicConstraints,    \* TypeSolver::SymbolicConstraints
  Updates,                \* the map returned by TypeSolver::Solve
  solved,                 \* Solve has returned
  solverOps,              \* number of solver calls made so far
  addLog,                 \* history: the calls of AddNode and AddGlobalConstraint
                          \* with IsFixed, and those whose node was created
                          \* unfixed
  \* --- TypeCorrectMatcher (TypeCorrect.cpp) ---
  UseDecltype,            \* TypeCorrectMatcher::UseDecltype
  InPlace,                \* TypeCorrectMatcher::InPlace
  ProjectRootSet,         \* !ProjectRoot.empty()
  hdrPath,                \* where the included header lies
  writtenAs,              \* variable -> how its type is written
  WidestTypeMap,          \* declaration -> WidestTypeState
  VariablesWithNegativeValues,
  FormatUsageMap,         \* variable -> sequence of FormatUsage
  CastsToRemove,          \* variable -> sequence of explicit casts
  RewrittenStmts,         \* the DeclStmts HandleMultiDecl has rewritten
  Rewrites,               \* the edits the Rewriter has accepted
  Written,                \* the edits in the files and the stream written
  phase,                  \* "matching", "done" or "crashed"
  matchCount,             \* number of matches handled by run()
  \* --- the source text the tool is run on, and run on again ---
  declType,               \* declaration -> the type it is written with
  splitStmts,             \* the DeclStmts written as one statement per variable
  castAt,                 \* the source expressions written in an explicit cast
  unit,                   \* the statements the matchers bind, in AST order
  runNo,                  \* 1: the first run, 2: the run on its output
  \* --- FactManager::MergeFacts (CTU/FactManager.cpp) ---
  RawFacts,               \* the vector of facts MergeFacts is called with
  Merged,                 \* the map the last call of MergeFacts returned
  Previous,               \* the map the call before it returned
  mergeCalls,             \* number of calls of MergeFacts made
  \* --- FactManager: the fact files (CTU/FactManager.cpp) ---
  Facts,                  \* the map of facts the caller holds
  files,                  \* the facts directory: file name -> contents
  OutFacts,               \* the vector the last ReadFacts filled
  ioCall,                 \* the last call: "none", "write", "read", "converged"
  ioPrev,                 \* the call before it
  ioRet,                  \* what the last call returned
  \* --- main (TypeCorrectMain.cpp) ---
  PhaseOpt,               \* --phase
  FactsDirOpt,            \* --facts-dir: "", or the directory it names
  MaxIterationsOpt,       \* --max-iterations
  noPerms,                \* the files of the directory without permissions
  Iteration,              \* main: Iteration
  ConvergenceReached,     \* main: ConvergenceReached
  pc,                     \* where main is: "start", "loop", "reduce", "exit"
  exitCode,               \* what main returned
  roundLog,               \* history: the rounds of the loop, what Tool.run
                          \* returned and what RunReduce returned in each
  globalBefore,           \* history: global.facts when the reduce step or
                          \* the round began
  MergedMap,              \* history: the map the last RunReduce merged
  \* --- TypeSolver::GetOptimalTypeForRange called on its own ---
  rangeArg,               \* the ValueRange R of the call
  originalArg,            \* the QualType Original of the call
  rangeRet,               \* what the call returned
  rangeOps                \* number of ValueRange::Union calls made on R

bvars == <<AllowABIChanges, ForceRewrite, fileKind,
           fileIncluder, BoundaryCache, TruncationUnsafeFields, lastCall>>

svars == <<Nodes, Adjacency, SymbolicConstraints, Updates, solved, solverOps,
           addLog>>

mvars == <<UseDecltype, InPlace, ProjectRootSet, hdrPath, writtenAs,
           WidestTypeMap,
           VariablesWithNegativeValues, FormatUsageMap, CastsToRemove,
           RewrittenStmts, Rewrites, Written, phase, matchCount>>
rvars == <<declType, splitStmts, castAt, unit, runNo>>

gvars == <<RawFacts, Merged, Previous, mergeCalls>>

\* The variables of the machines that follow the first three.
hvars == <<Facts, files, OutFacts, ioCall, ioPrev, ioRet>>
cvars == <<PhaseOpt, FactsDirOpt, MaxIterationsOpt, noPerms, Iteration,
           ConvergenceReached, pc, exitCode, roundLog, globalBefore,
           MergedMap>>
xvars == <<rangeArg, originalArg, rangeRet, rangeOps>>
ovars == <<rvars, gvars, hvars, cvars, xvars>>
vars == <<bvars, svars, mvars, ovars>>

\* Number of declarations (const NamedDecl*) the solver is told about.
NumDecls == 2
Decls == 1..NumDecls
\* const NamedDecl* nullptr
NullDeclPtr == 0

\* The TypeSolver as constructed: TypeSolver::TypeSolver().
IdleSolver ==
  /\ Nodes = <<>>
  /\ Adjacency = [d \in Decls |-> <<>>]
  /\ SymbolicConstraints = <<>>
  /\ Updates = <<>>
  /\ solved = FALSE
  /\ solverOps = 0
  /\ addLog = [fixed |-> {}, unfixedFirst |-> {}, added |-> {},
               global |-> {}]

\* The declarations of the translation unit the matcher runs on:
\*   hdr:   inline void g(const char *s) { int h = ...; }
\*   main:  long f(const char *s, C c) {
\*            int a = ..., b = ...;
\*            for (short i = ...; ...; ...) ...
\*            return ...; }
VarDecls == {"a", "b", "h", "i"}
FuncDecls == {"f"}
TUDecls == VarDecls \cup FuncDecls

\* A TypeCorrectMatcher that is not used.
IdleMatcher ==
  /\ UseDecltype = FALSE
  /\ InPlace = FALSE
  /\ ProjectRootSet = FALSE
  /\ hdrPath = "project"
  /\ writtenAs = [v \in VarDecls |-> "name"]
  /\ WidestTypeMap = <<>>
  /\ VariablesWithNegativeValues = {}
  /\ FormatUsageMap = [v \in VarDecls |-> <<>>]
  /\ CastsToRemove = [v \in VarDecls |-> <<>>]
  /\ RewrittenStmts = {}
  /\ Rewrites = {}
  /\ Written = {}
  /\ phase = "matching"
  /\ matchCount = 0

\* The types the declarations of the unit are written with.
WrittenTypes ==
  [d \in TUDecls |-> IF d \in FuncDecls THEN "long"
                     ELSE IF d = "i" THEN "short" ELSE "int"]

\* The unit as written, before any run.
IdleRerun ==
  /\ declType = WrittenTypes
  /\ splitStmts = {}
  /\ castAt = {}
  /\ unit = <<>>
  /\ runNo = 1

\* FactManager::MergeFacts not called.
IdleMerge ==
  /\ RawFacts = <<>>
  /\ Merged = <<>>
  /\ Previous = <<>>
  /\ mergeCalls = 0

\* The files of the facts directory, none of which exists.
FileNames == {"a.facts", "b.facts", "global.facts", "notes.txt"}
NoFile == [exists |-> FALSE, text |-> <<>>]

\* No fact file written or read.
IdleFactFiles ==
  /\ Facts = <<>>
  /\ files = [n \in FileNames |-> NoFile]
  /\ OutFacts = <<>>
  /\ ioCall = "none"
  /\ ioPrev = "none"
  /\ ioRet = FALSE

\* main not started.
IdleMain ==
  /\ PhaseOpt = "standalone"
  /\ FactsDirOpt = ""
  /\ MaxIterationsOpt = 0
  /\ noPerms = {}
  /\ Iteration = 0
  /\ ConvergenceReached = FALSE
  /\ pc = "start"
  /\ exitCode = 0
  /\ roundLog = <<>>
  /\ globalBefore = NoFile
  /\ MergedMap = <<>>

\* GetOptimalTypeForRange not called: the range is ValueRange().
NotCalled == [called |-> FALSE, trap |-> FALSE, type |-> "null"]
IdleRange ==
  /\ rangeArg = [Min |-> <<0, 0, 0, 0>>, Max |-> <<0, 0, 0, 0>>,
                 HasMin |-> FALSE, HasMax |-> FALSE]
  /\ originalArg = "null"
  /\ rangeRet = NotCalled
  /\ rangeOps = 0

IdleOthers ==
  /\ IdleRerun
  /\ IdleMerge
  /\ IdleFactFiles
  /\ IdleMain
  /\ IdleRange

(***************************************************************************)
(*                         StructAnalyzer                                  *)
(***************************************************************************)

\* Number of files (FileIDs) of the translation unit.
NumFiles == 3
FileIDs == 1..NumFiles
\* FileID() : the invalid file id.
InvalidFID == 0
\* SourceManager::getMainFileID()
MainFileID == 1

\* Number of distinct field declarations.
NumFields == 1
FieldIds == 1..NumFields

\* Provenance of a file, one value per decision path of CheckFileBoundary
\* and IsExternalPath:
\*   user    : file-backed, path clean, inside the project root
\*   system  : SourceManager::isInSystemHeader
\*   membuf  : no FileEntryRef (memory buffer, builtin)
\*   pattern : path contains /usr/, third_party, ...
\*   outside : a project root is configured and the path is not under it
\*   cmake   : a CMakeLists.txt on the way up marks the directory external
FileKinds == {"user", "system", "membuf", "pattern", "outside", "cmake"}

\* The provenances drawn for the included files.
HeaderKinds == {"user", "system", "membuf", "pattern"}

\* enum class BoundaryStatus
BoundaryStatuses == {"Unknown", "Modifiable", "Fixed"}

isInSystemHeader(FID) == fileKind[FID] = "system"

getFileEntryRefForID(FID) == fileKind[FID] # "membuf"

\* The result of AnalyzeCMakeDependency for the directory of the file: a
\* function of the directory and of the file system only.
AnalyzeCMakeDependency(FID) == fileKind[FID] = "cmake"

IsExternalPath(FID) ==
  IF ForceRewrite THEN FALSE
  ELSE IF fileKind[FID] = "pattern" THEN TRUE
  ELSE IF fileKind[FID] = "outside" THEN TRUE
  ELSE AnalyzeCMakeDependency(FID)

\* Mutation of ViralStatus: the includer's status is ignored.
ViralStatus_Ignored(ParentStatus) == "Modifiable"

\* Step 4 of CheckFileBoundary: the status of a file that passed the file's
\* own checks, given the status of its includer.
ViralStatus(ParentStatus) ==
  IF ParentStatus = "Fixed" THEN "Fixed" ELSE "Modifiable"

\* BoundaryStatus StructAnalyzer::CheckFileBoundary(FileID, SourceManager&).
\* Returns the status and the cache after the call.
RECURSIVE CheckFileBoundary(_, _)
CheckFileBoundary(FID, cache) ==
  IF cache[FID] # "Unknown"
    THEN [status |-> cache[FID], cache |-> cache]
  ELSE IF isInSystemHeader(FID)
    THEN [status |-> "Fixed", cache |-> [cache EXCEPT ![FID] = "Fixed"]]
  ELSE IF ~getFileEntryRefForID(FID)
    THEN [status |-> "Fixed", cache |-> [cache EXCEPT ![FID] = "Fixed"]]
  ELSE IF IsExternalPath(FID)
    THEN [status |-> "Fixed", cache |-> [cache EXCEPT ![FID] = "Fixed"]]
  ELSE LET IncluderFID == fileIncluder[FID] IN
    IF IncluderFID # InvalidFID /\ IncluderFID # FID
      THEN LET Parent == CheckFileBoundary(IncluderFID, cache)
               St == ViralStatus(Parent.status)
           IN  [status |-> St, cache |-> [Parent.cache EXCEPT ![FID] = St]]
      ELSE [status |-> "Modifiable",
            cache |-> [cache EXCEPT ![FID] = "Modifiable"]]

\* A declaration handed to the analyzer: null, without a valid location, or
\* located (after getSpellingLoc for macro ids) in file `file`.
NullDecl == 0 - 1
InvalidLoc == 0
DeclLocs == {NullDecl, InvalidLoc} \cup FileIDs

\* bool StructAnalyzer::IsBoundaryFixed(const NamedDecl*, SourceManager&)
IsBoundaryFixed(D, cache) ==
  IF D = NullDecl THEN [result |-> TRUE, cache |-> cache]
  ELSE IF ForceRewrite THEN [result |-> FALSE, cache |-> cache]
  ELSE IF D = InvalidLoc THEN [result |-> TRUE, cache |-> cache]
  ELSE LET R == CheckFileBoundary(D, cache)
       IN  [result |-> (R.status = "Fixed"), cache |-> R.cache]

\* A field carries at most this many of the traits bit-field, packed, packed
\* parent and union member.
MaxFieldTraits == 1

\* The field declarations a caller can pass to CanRewriteField.
FieldDecls ==
  { F \in [id : FieldIds, loc : DeclLocs \ {NullDecl}, isBitField : BOOLEAN,
            packedAttr : BOOLEAN, parentPacked : BOOLEAN, isUnion : BOOLEAN] :
      Cardinality({a \in {"b", "p", "r", "u"} :
                     \/ a = "b" /\ F.isBitField
                     \/ a = "p" /\ F.packedAttr
                     \/ a = "r" /\ F.parentPacked
                     \/ a = "u" /\ F.isUnion}) <= MaxFieldTraits }

NullField == [id |-> 0, loc |-> NullDecl, isBitField |-> FALSE,
              packedAttr |-> FALSE, parentPacked |-> FALSE, isUnion |-> FALSE]

\* bool StructAnalyzer::IsPacked(const FieldDecl*) const
IsPacked(Field) ==
  IF Field.loc = NullDecl THEN FALSE
  ELSE IF Field.parentPacked THEN TRUE
  ELSE Field.packedAttr

\* bool StructAnalyzer::CanRewriteField(const FieldDecl*, SourceManager&)
CanRewriteField(Field, cache) ==
  IF Field.loc = NullDecl THEN [result |-> FALSE, cache |-> cache]
  ELSE IF ForceRewrite THEN [result |-> TRUE, cache |-> cache]
  ELSE LET B == IsBoundaryFixed(Field.loc, cache) IN
    IF B.result THEN [result |-> FALSE, cache |-> B.cache]
    ELSE IF ~AllowABIChanges THEN [result |-> FALSE, cache |-> B.cache]
    ELSE IF Field.isBitField THEN [result |-> FALSE, cache |-> B.cache]
    ELSE IF IsPacked(Field) THEN [result |-> FALSE, cache |-> B.cache]
    ELSE IF Field.isUnion THEN [result |-> FALSE, cache |-> B.cache]
    ELSE IF Field.id \in TruncationUnsafeFields
      THEN [result |-> FALSE, cache |-> B.cache]
    ELSE [result |-> TRUE, cache |-> B.cache]

NoCall == [op |-> "none", fid |-> InvalidFID, field |-> NullField,
           flagged |-> FALSE, status |-> "Unknown", result |-> FALSE]

\* A StructAnalyzer that is not used.
IdleBoundary ==
  /\ AllowABIChanges = FALSE
  /\ ForceRewrite = FALSE
  /\ fileKind = [f \in FileIDs |-> "user"]
  /\ fileIncluder = [f \in FileIDs |-> InvalidFID]
  /\ BoundaryCache = [f \in FileIDs |-> "Unknown"]
  /\ TruncationUnsafeFields = {}
  /\ lastCall = NoCall

\* StructAnalyzer::StructAnalyzer and the files of the translation unit.  A
\* file is entered by an #include in a file that already has a FileID, and
\* the main file has no include location and is not a system header.
InitBoundary ==
  /\ IdleSolver
  /\ IdleMatcher
  /\ IdleOthers
  /\ AllowABIChanges \in BOOLEAN
  /\ ForceRewrite \in BOOLEAN
  /\ fileKind \in [FileIDs -> FileKinds]
  /\ fileKind[MainFileID] # "system"
  /\ \A f \in FileIDs \ {MainFileID} : fileKind[f] \in HeaderKinds
  /\ fileIncluder \in [FileIDs -> {InvalidFID} \cup FileIDs]
  /\ fileIncluder[MainFileID] = InvalidFID
  /\ \A f \in FileIDs \ {MainFileID} :
        fileIncluder[f] # InvalidFID /\ fileIncluder[f] < f
  /\ BoundaryCache = [f \in FileIDs |-> "Unknown"]
  /\ TruncationUnsafeFields = {}
  /\ lastCall = NoCall

\* A direct call of CheckFileBoundary(FID, SM).
CallCheckFileBoundary ==
  \E FID \in FileIDs :
    LET R == CheckFileBoundary(FID, BoundaryCache) IN
      /\ BoundaryCache' = R.cache
      /\ lastCall' = [op |-> "CheckFileBoundary", fid |-> FID,
                      field |-> NullField, flagged |-> FALSE,
                      status |-> R.status, result |-> FALSE]
      /\ UNCHANGED <<AllowABIChanges, ForceRewrite, fileKind,
                     fileIncluder, TruncationUnsafeFields, svars, mvars, ovars>>

\* A call of IsBoundaryFixed(D, SM).
CallIsBoundaryFixed ==
  \E D \in DeclLocs :
    LET R == IsBoundaryFixed(D, BoundaryCache) IN
      /\ BoundaryCache' = R.cache
      /\ lastCall' = [op |-> "IsBoundaryFixed", fid |-> InvalidFID,
                      field |-> [NullField EXCEPT !.loc = D],
                      flagged |-> FALSE, status |-> "Unknown",
                      result |-> R.result]
      /\ UNCHANGED <<AllowABIChanges, ForceRewrite, fileKind,
                     fileIncluder, TruncationUnsafeFields, svars, mvars, ovars>>

\* A call of CanRewriteField(Field, SM).
CallCanRewriteField ==
  \E Field \in FieldDecls \cup {NullField} :
    LET R == CanRewriteField(Field, BoundaryCache) IN
      /\ BoundaryCache' = R.cache
      /\ lastCall' = [op |-> "CanRewriteField", fid |-> InvalidFID,
                      field |-> Field,
                      flagged |-> (Field.id \in TruncationUnsafeFields),
                      status |-> "Unknown", result |-> R.result]
      /\ UNCHANGED <<AllowABIChanges, ForceRewrite, fileKind,
                     fileIncluder, TruncationUnsafeFields, svars, mvars, ovars>>

\* TruncationUnsafeFields.insert(Field): the truncation analysis flags a
\* field.
MarkTruncationUnsafe ==
  \E id \in FieldIds :
    /\ id \notin TruncationUnsafeFields
    /\ TruncationUnsafeFields' = TruncationUnsafeFields \cup {id}
    /\ UNCHANGED <<AllowABIChanges, ForceRewrite, fileKind,
                   fileIncluder, BoundaryCache, lastCall, svars, mvars, ovars>>

NextBoundary ==
  \/ CallCheckFileBoundary
  \/ CallIsBoundaryFixed
  \/ CallCanRewriteField
  \/ MarkTruncationUnsafe

SpecBoundary == InitBoundary /\ [][NextBoundary]_vars

\* The file classification alone: the queries that do not involve a field.
\* AllowABIChanges is read by CanRewriteField only.
InitFiles == InitBoundary /\ AllowABIChanges = TRUE

NextFiles ==
  \/ CallCheckFileBoundary
  \/ CallIsBoundaryFixed

SpecFiles == InitFiles /\ [][NextFiles]_vars

(***************************************************************************)
(*                    Properties of StructAnalyzer                         *)
(***************************************************************************)

\* The file fails one of the checks CheckFileBoundary makes on the file
\* itself (system header, no file entry, external path).
OwnFixed(f) ==
  isInSystemHeader(f) \/ ~getFileEntryRefForID(f) \/ IsExternalPath(f)

\* The files on the inclusion chain of f, from f up to the main file.
RECURSIVE InclusionChain(_)
InclusionChain(f) ==
  IF fileIncluder[f] = InvalidFID \/ fileIncluder[f] = f THEN {f}
  ELSE {f} \cup InclusionChain(fileIncluder[f])

\* C5: the boundary classification of the main source file is always
\* Modifiable, whatever its path and whether or not it has a file entry.
C5_MainFileAlwaysModifiable ==
  /\ BoundaryCache[MainFileID] # "Fixed"
  /\ (lastCall.op = "CheckFileBoundary" /\ lastCall.fid = MainFileID)
        => lastCall.status = "Modifiable"

\* C6: viral fixedness.  A classified file is Modifiable only if every file
\* on its inclusion chain passes its own checks and is Modifiable, it is
\* Fixed only if some file of the chain fails them, a file whose includer is
\* classified Fixed is never Modifiable, and a direct query answers the same
\* whatever the cache held before.
C6_ViralFixedness ==
  /\ \A f \in FileIDs :
        /\ BoundaryCache[f] = "Modifiable" =>
              \A a \in InclusionChain(f) :
                 ~OwnFixed(a) /\ BoundaryCache[a] = "Modifiable"
        /\ BoundaryCache[f] = "Fixed" =>
              \E a \in InclusionChain(f) : OwnFixed(a)
        /\ (fileIncluder[f] # InvalidFID
              /\ BoundaryCache[fileIncluder[f]] = "Fixed")
              => BoundaryCache[f] # "Modifiable"
  /\ lastCall.op = "CheckFileBoundary" =>
        lastCall.status =
           IF \E a \in InclusionChain(lastCall.fid) : OwnFixed(a)
             THEN "Fixed" ELSE "Modifiable"

\* C6 witness: a file that passes its own checks, included from a file that
\* passes them too, has been classified Fixed through a chain of two
\* includes.
C6_Witness ==
  \E f \in FileIDs :
     /\ fileIncluder[f] # InvalidFID
     /\ fileIncluder[fileIncluder[f]] # InvalidFID
     /\ ~OwnFixed(f)
     /\ ~OwnFixed(fileIncluder[f])
     /\ BoundaryCache[f] = "Fixed"
     /\ lastCall.op = "CheckFileBoundary"

\* C7: with the force flag set, a declaration in a system header is still
\* reported fixed by IsBoundaryFixed and still refused by CanRewriteField.
C7_ForceRespectsSystemHeaders ==
  (/\ ForceRewrite
   /\ lastCall.field.loc \in FileIDs
   /\ isInSystemHeader(lastCall.field.loc))
  => /\ lastCall.op = "IsBoundaryFixed" => lastCall.result = TRUE
     /\ lastCall.op = "CanRewriteField" => lastCall.result = FALSE

\* C8: CanRewriteField answers true only if ABI-breaking changes are
\* allowed and the field is no bit-field, no union member, not packed, not
\* flagged by the truncation analysis and not boundary-fixed.
C8_CanRewriteFieldOnlyIfSafe ==
  (lastCall.op = "CanRewriteField" /\ lastCall.result = TRUE)
  => /\ AllowABIChanges
     /\ lastCall.field.loc # NullDecl
     /\ ~lastCall.field.isBitField
     /\ ~lastCall.field.isUnion
     /\ ~lastCall.field.packedAttr
     /\ ~lastCall.field.parentPacked
     /\ ~lastCall.flagged
     /\ lastCall.field.loc \in FileIDs
     /\ \A a \in InclusionChain(lastCall.field.loc) : ~OwnFixed(a)

(***************************************************************************)
(*                    Types (clang::QualType)                              *)
(***************************************************************************)

\* QualType() : the null type.
NullType == "null"

\* The types of the model, on an LP64 target.  size_t is the typedef (a
\* sugared type whose canonical type is unsigned long), fn is a function
\* type, struct a complete record type (struct Complete { int x; }) and void
\* an incomplete type.
\* size_type is the member typedef of a standard container, as in
\* decltype(c)::size_type: std::size_t.
AllTypes == {"uchar", "schar", "ushort", "short", "uint", "int", "ulong",
             "long", "ulonglong", "longlong", "size_t", "size_type", "fn",
             "struct", "void"}

\* QualType::getCanonicalType()
getCanonicalType(T) == IF T \in {"size_t", "size_type"} THEN "ulong" ELSE T

\* ASTContext::getTypeSize(T), in bits (0 for a function type).
getTypeSize(T) ==
  CASE getCanonicalType(T) \in {"uchar", "schar"} -> 8
    [] getCanonicalType(T) \in {"ushort", "short"} -> 16
    [] getCanonicalType(T) \in {"ulong", "long", "ulonglong", "longlong"} -> 64
    [] getCanonicalType(T) \in {"uint", "int", "struct"} -> 32
    [] OTHER -> 0

isUnsignedIntegerType(T) ==
  getCanonicalType(T) \in {"uchar", "ushort", "uint", "ulong", "ulonglong"}

isSignedIntegerType(T) ==
  getCanonicalType(T) \in {"schar", "short", "int", "long", "longlong"}

isScalarType(T) == isUnsignedIntegerType(T) \/ isSignedIntegerType(T)

isIncompleteType(T) == getCanonicalType(T) = "void"

\* ASTContext::hasSameType(A, B)
hasSameType(A, B) == getCanonicalType(A) = getCanonicalType(B)

\* ASTContext::getPointerDiffType() and ASTContext::getSizeType()
getPointerDiffType == "long"
getSizeType == "ulong"

(***************************************************************************)
(*                            TypeSolver                                   *)
(***************************************************************************)

\* The types the collector hands to the solver.
SolverTypes == {"int", "uint", "long"}

\* The types of the expressions the collector offers as candidates.
CandidateTypes == {"uint", "long"}

\* The base expressions (const Expr*) handed to AddConstraint; 0 is nullptr.
BaseExprs == {0, 1}

\* Number of solver calls before Solve.
MaxSolverOps == 4

\* Number of symbolic constraints recorded before Solve.
MaxSymbolic == 1

\* enum class OpKind, without None
OpKinds == {"Add", "Sub", "Mul", "Div"}

\* The operators of the expressions the collector meets.
InputOps == {"Add"}

\* int64_t, the type of ValueRange::Min and Max: four limbs of 16 bits in
\* two's complement, the most significant first.
LimbBase == 65536

\* The int64_t of a number n of the model, 0 <= n <= Int32Max.
NonNeg64(n) == <<0, 0, n \div LimbBase, n % LimbBase>>

\* The carries of an increment by one, from the least significant limb up.
CarryInto(x, i) == \A j \in (i + 1)..4 : x[j] = LimbBase - 1

\* x + 1 on 64 bits, wrapping.
Inc64(x) == [i \in 1..4 |-> IF CarryInto(x, i) THEN (x[i] + 1) % LimbBase
                            ELSE x[i]]

\* -x as the machine computes it on 64 bits: ~x + 1, wrapping.
Neg64(x) == Inc64([i \in 1..4 |-> LimbBase - 1 - x[i]])

\* The int64_t of a number n of the model, -Int32Max <= n <= Int32Max.
Int64(n) == IF n >= 0 THEN NonNeg64(n) ELSE Neg64(NonNeg64(0 - n))

\* std::numeric_limits<int64_t>::min() and max()
Int64Min == <<LimbBase \div 2, 0, 0, 0>>
Int64Max == <<LimbBase \div 2 - 1, LimbBase - 1, LimbBase - 1, LimbBase - 1>>

\* x < 0 for an int64_t
IsNeg64(x) == x[1] >= LimbBase \div 2

\* a < b for two bit patterns read as unsigned numbers.
LessUnsigned(a, b) ==
  \E i \in 1..4 : a[i] < b[i] /\ \A j \in 1..(i - 1) : a[j] = b[j]

\* a < b and a <= b for two int64_t
Less64(a, b) ==
  IF IsNeg64(a) # IsNeg64(b) THEN IsNeg64(a) ELSE LessUnsigned(a, b)
Leq64(a, b) == a = b \/ Less64(a, b)

\* std::min and std::max of two int64_t
Min64(a, b) == IF Less64(b, a) THEN b ELSE a
Max64(a, b) == IF Less64(a, b) THEN b ELSE a

\* ValueRange::ValueRange()
EmptyRange ==
  [Min |-> Int64(0), Max |-> Int64(0), HasMin |-> FALSE, HasMax |-> FALSE]

\* ValueRange::ValueRange(Least, Most)
ValueRange(Least, Most) ==
  [Min |-> Least, Max |-> Most, HasMin |-> TRUE, HasMax |-> TRUE]

\* The ranges handed to AddRangeConstraint.
InputRanges ==
  { ValueRange(Int64(0), Int64(100)), ValueRange(Int64(0 - 5), Int64(70000)) }

MinOf(a, b) == IF a < b THEN a ELSE b
MaxOf(a, b) == IF a > b THEN a ELSE b

\* void ValueRange::Union(const ValueRange &Other), as the new value of *this
RangeUnion(This, Other) ==
  IF ~Other.HasMin /\ ~Other.HasMax THEN This
  ELSE LET R1 == IF Other.HasMin
                   THEN IF ~This.HasMin
                          THEN [This EXCEPT !.Min = Other.Min, !.HasMin = TRUE]
                          ELSE [This EXCEPT !.Min = Min64(This.Min, Other.Min)]
                   ELSE This
       IN  IF Other.HasMax
             THEN IF ~R1.HasMax
                    THEN [R1 EXCEPT !.Max = Other.Max, !.HasMax = TRUE]
                    ELSE [R1 EXCEPT !.Max = Max64(R1.Max, Other.Max)]
             ELSE R1

\* NodeState::NodeState()
DefaultNodeState ==
  [Decl |-> NullDeclPtr, OriginalType |-> NullType,
   ConstraintType |-> NullType, ComputedRange |-> EmptyRange,
   IsFixed |-> FALSE, HasGlobalConstraint |-> FALSE, IsPtrOffset |-> FALSE,
   IsTypedef |-> FALSE, BaseExpr |-> 0]

\* NodeState::NodeState(D, T, Locked, Typedef)
NewNodeState(D, T, Locked, Typedef) ==
  [Decl |-> D, OriginalType |-> T, ConstraintType |-> T,
   ComputedRange |-> EmptyRange, IsFixed |-> Locked,
   HasGlobalConstraint |-> FALSE, IsPtrOffset |-> FALSE,
   IsTypedef |-> Typedef, BaseExpr |-> 0]

\* QualType TypeSolver::GetWider(QualType A, QualType B, ASTContext*)
GetWider(A, B) ==
  IF A = NullType THEN B
  ELSE IF B = NullType THEN A
  ELSE IF hasSameType(A, B) THEN A
  ELSE IF isIncompleteType(A) \/ isIncompleteType(B) THEN B
  ELSE IF ~isScalarType(A) \/ ~isScalarType(B) THEN B
  ELSE IF getTypeSize(B) > getTypeSize(A) THEN B
  ELSE IF getTypeSize(A) > getTypeSize(B) THEN A
  ELSE IF isUnsignedIntegerType(B) /\ isSignedIntegerType(A) THEN B
  ELSE A

\* std::numeric_limits<T>::max() for the widths of the range table
UInt8Max == 255
UInt16Max == 65535
Int8Max == 127
Int16Max == 32767
Int32Max == 2147483647

\* x <= std::numeric_limits<uint32_t>::max() for an int64_t x >= 0: the
\* limit is converted to int64_t, and x is below it when its upper 32 bits
\* are zero.
LeqUInt32Max(x) == x[1] = 0 /\ x[2] = 0

\* std::abs(x) of an int64_t. For the minimum -x overflows, which is
\* undefined: the call yields the wrapped value (the minimum itself), or the
\* run stops in a build that traps on signed overflow.
AbsOutcomes(x) ==
  IF ~IsNeg64(x) THEN {[trap |-> FALSE, val |-> x]}
  ELSE IF x = Int64Min
    THEN {[trap |-> FALSE, val |-> Neg64(x)], [trap |-> TRUE, val |-> x]}
  ELSE {[trap |-> FALSE, val |-> Neg64(x)]}

\* GetOptimalTypeForRange, the branch of !NeedsSigned with HasMax
UnsignedForMax(Max) ==
  IF Leq64(Max, Int64(UInt8Max)) THEN "uchar"
  ELSE IF Leq64(Max, Int64(UInt16Max)) THEN "ushort"
  ELSE IF LeqUInt32Max(Max) THEN "uint"
  ELSE getSizeType

\* GetOptimalTypeForRange, the branch of NeedsSigned once AbsMax is computed
SignedForAbsMax(AbsMax) ==
  IF Leq64(AbsMax, Int64(Int8Max)) THEN "schar"
  ELSE IF Leq64(AbsMax, Int64(Int16Max)) THEN "short"
  ELSE IF Leq64(AbsMax, Int64(Int32Max)) THEN "int"
  ELSE "longlong"

\* What a call returns: a type, or nothing when the run has stopped.
Returned(T) == [trap |-> FALSE, type |-> T]
Trapped == [trap |-> TRUE, type |-> NullType]

\* GetOptimalTypeForRange(R, Original, Ctx): the outcomes of a call.
RangeOutcomes(R, Original) ==
  IF ~R.HasMin /\ ~R.HasMax THEN {Returned(Original)}
  ELSE IF ~(R.HasMin /\ IsNeg64(R.Min))
    THEN IF R.HasMax THEN {Returned(UnsignedForMax(R.Max))}
         ELSE {Returned(Original)}
  ELSE {IF a.trap \/ b.trap THEN Trapped
        ELSE Returned(SignedForAbsMax(Max64(a.val, b.val))) :
          a \in AbsOutcomes(R.Min), b \in AbsOutcomes(R.Max)}

\* QualType TypeSolver::GetOptimalTypeForRange(R, Original, Ctx), when the
\* call returns.
GetOptimalTypeForRange(R, Original) ==
  (CHOOSE o \in RangeOutcomes(R, Original) : ~o.trap).type

\* Mutation of AddNodeOp: re-adding a declaration does not strengthen the
\* flags of its node.
AddNodeOp_NoStrengthen(nodes, Decl, CurrentType, IsFixed, IsTypedef) ==
  IF Decl = NullDeclPtr THEN nodes
  ELSE IF Decl \notin DOMAIN nodes
    THEN nodes @@ (Decl :> NewNodeState(Decl, CurrentType, IsFixed, IsTypedef))
  ELSE nodes

\* void TypeSolver::AddNode(Decl, CurrentType, IsFixed, IsTypedef), as the
\* new value of Nodes
AddNodeOp(nodes, Decl, CurrentType, IsFixed, IsTypedef) ==
  IF Decl = NullDeclPtr THEN nodes
  ELSE IF Decl \notin DOMAIN nodes
    THEN nodes @@ (Decl :> NewNodeState(Decl, CurrentType, IsFixed, IsTypedef))
  ELSE [nodes EXCEPT ![Decl].IsFixed = @ \/ IsFixed,
                     ![Decl].IsTypedef = @ \/ IsTypedef]

\* void TypeSolver::AddGlobalConstraint(Decl, GlobalType, Ctx)
AddGlobalConstraintOp(nodes, Decl, GlobalType) ==
  IF Decl = NullDeclPtr THEN nodes
  ELSE IF Decl \notin DOMAIN nodes
    THEN nodes @@ (Decl :> [NewNodeState(Decl, GlobalType, FALSE, FALSE)
                              EXCEPT !.HasGlobalConstraint = TRUE])
  ELSE [nodes EXCEPT ![Decl].ConstraintType = GetWider(@, GlobalType),
                     ![Decl].HasGlobalConstraint = TRUE]

\* void TypeSolver::AddPointerOffsetUsage(Decl)
AddPointerOffsetUsageOp(nodes, Decl) ==
  IF Decl = NullDeclPtr THEN nodes
  ELSE IF Decl \in DOMAIN nodes
    THEN [nodes EXCEPT ![Decl].IsPtrOffset = TRUE]
  ELSE nodes

\* void TypeSolver::AddEdge(Target, Source), as the new value of Adjacency
AddEdgeOp(nodes, adj, Target, Source) ==
  IF Target = NullDeclPtr \/ Source = NullDeclPtr \/ Target = Source THEN adj
  ELSE IF Target \notin DOMAIN nodes \/ Source \notin DOMAIN nodes THEN adj
  ELSE [adj EXCEPT ![Target] = Append(@, Source)]

\* void TypeSolver::AddConstraint(Decl, Candidate, BaseExpr, Ctx)
AddConstraintOp(nodes, Decl, Candidate, BaseExpr) ==
  IF Decl = NullDeclPtr THEN nodes
  ELSE IF Decl \notin DOMAIN nodes THEN nodes
  ELSE [nodes EXCEPT
          ![Decl].ConstraintType = GetWider(@, Candidate),
          ![Decl].BaseExpr = IF BaseExpr # 0 THEN BaseExpr ELSE @]

\* void TypeSolver::AddRangeConstraint(Decl, Range)
AddRangeConstraintOp(nodes, Decl, Range) ==
  IF Decl = NullDeclPtr THEN nodes
  ELSE IF Decl \notin DOMAIN nodes THEN nodes
  ELSE [nodes EXCEPT ![Decl].ComputedRange = RangeUnion(@, Range)]

\* void TypeSolver::AddSymbolicConstraint(Result, Op, LHS, RHS), as the new
\* value of SymbolicConstraints
AddSymbolicConstraintOp(syms, Result, Op, LHS, RHS) ==
  IF Result = NullDeclPtr \/ LHS = NullDeclPtr \/ RHS = NullDeclPtr THEN syms
  ELSE Append(syms, [Result |-> Result, Op |-> Op, LHS |-> LHS, RHS |-> RHS])

\* The elements of a sequence.
SeqRange(q) == { q[i] : i \in 1..Len(q) }

\* The accumulation loop of ProcessSCC over the members from index i on.
RECURSIVE UnifyMembers(_, _, _, _)
UnifyMembers(SCC, i, nodes, acc) ==
  IF i > Len(SCC) THEN acc
  ELSE LET St == nodes[SCC[i]] IN
    UnifyMembers(SCC, i + 1, nodes,
      [UnifiedType |-> GetWider(acc.UnifiedType, St.ConstraintType),
       UnifiedRange |-> RangeUnion(acc.UnifiedRange, St.ComputedRange),
       IsFixed |-> (acc.IsFixed \/ St.IsFixed),
       IsPtrOffset |-> (acc.IsPtrOffset \/ St.IsPtrOffset)])

\* What ProcessSCC writes back to a member of the component.
WriteBack(St, UnifiedType, UnifiedRange, IsFixed, IsPtrOffset) ==
  [St EXCEPT !.ConstraintType = UnifiedType,
             !.ComputedRange = UnifiedRange,
             !.IsPtrOffset = @ \/ IsPtrOffset]

\* void TypeSolver::ProcessSCC(SCC, Ctx), as the new value of Nodes
ProcessSCC(SCC, nodes) ==
  LET acc == UnifyMembers(SCC, 1, nodes,
               [UnifiedType |-> IF Len(SCC) > 0
                                  THEN nodes[SCC[1]].ConstraintType
                                  ELSE NullType,
                UnifiedRange |-> EmptyRange,
                IsFixed |-> FALSE, IsPtrOffset |-> FALSE])
      UnifiedType == IF acc.IsPtrOffset
                       THEN GetWider(acc.UnifiedType, getPointerDiffType)
                       ELSE acc.UnifiedType
  IN  [d \in DOMAIN nodes |->
         IF d \in SeqRange(SCC)
           THEN WriteBack(nodes[d], UnifiedType, acc.UnifiedRange,
                          acc.IsFixed, acc.IsPtrOffset)
           ELSE nodes[d]]

\* The position of V on the Tarjan stack (top of stack first).
RECURSIVE StackPos(_, _, _)
StackPos(stack, V, i) ==
  IF stack[i] = V THEN i ELSE StackPos(stack, V, i + 1)

\* void TypeSolver::StrongConnect(V, Ctx) on the state
\* st = [cnt: TarjanIndexCounter, stack: TarjanStack, ts: TarjanState,
\*       nodes: Nodes], and its loop over Adjacency[V] from index i on.
RECURSIVE StrongConnect(_, _, _)
RECURSIVE VisitAdjacent(_, _, _, _)
VisitAdjacent(V, i, adj, st) ==
  IF V \notin DOMAIN adj \/ i > Len(adj[V]) THEN st
  ELSE LET W == adj[V][i] IN
    IF W \notin DOMAIN st.ts
      THEN LET s1 == StrongConnect(W, adj, st) IN
           VisitAdjacent(V, i + 1, adj,
             [s1 EXCEPT !.ts[V].LowLink =
                          MinOf(s1.ts[V].LowLink, s1.ts[W].LowLink)])
    ELSE IF st.ts[W].OnStack
      THEN VisitAdjacent(V, i + 1, adj,
             [st EXCEPT !.ts[V].LowLink =
                          MinOf(st.ts[V].LowLink, st.ts[W].Index)])
    ELSE VisitAdjacent(V, i + 1, adj, st)

StrongConnect(V, adj, st) ==
  LET s0 == [st EXCEPT
               !.ts = st.ts @@ (V :> [Index |-> st.cnt, LowLink |-> st.cnt,
                                      OnStack |-> TRUE]),
               !.cnt = st.cnt + 1,
               !.stack = <<V>> \o st.stack]
      s1 == VisitAdjacent(V, 1, adj, s0)
  IN  IF s1.ts[V].LowLink = s1.ts[V].Index
        THEN LET k == StackPos(s1.stack, V, 1)
                 SCC == SubSeq(s1.stack, 1, k)
             IN  [s1 EXCEPT
                    !.stack = SubSeq(s1.stack, k + 1, Len(s1.stack)),
                    !.ts = [d \in DOMAIN s1.ts |->
                              IF d \in SeqRange(SCC)
                                THEN [s1.ts[d] EXCEPT !.OnStack = FALSE]
                                ELSE s1.ts[d]],
                    !.nodes = ProcessSCC(SCC, s1.nodes)]
        ELSE s1

\* The first loop of Solve: StrongConnect on every node not yet visited, in
\* the order of the map's keys.
RECURSIVE TarjanLoop(_, _, _)
TarjanLoop(d, adj, st) ==
  IF \A e \in DOMAIN st.nodes : e < d THEN st
  ELSE IF d \in DOMAIN st.nodes /\ d \notin DOMAIN st.ts
    THEN TarjanLoop(d + 1, adj, StrongConnect(d, adj, st))
  ELSE TarjanLoop(d + 1, adj, st)

\* Nodes[D] of std::map: inserts a default NodeState for a missing key.
EnsureNode(nodes, D) ==
  IF D \in DOMAIN nodes THEN nodes ELSE nodes @@ (D :> DefaultNodeState)

\* The type of the operation of a symbolic constraint: the wider of the
\* operands' types, widened to ptrdiff_t when an operand is a pointer offset.
SymbolicOpType(LState, RState) ==
  IF LState.IsPtrOffset \/ RState.IsPtrOffset
    THEN GetWider(GetWider(LState.ConstraintType, RState.ConstraintType),
                  getPointerDiffType)
    ELSE GetWider(LState.ConstraintType, RState.ConstraintType)

\* The end of the body of the symbolic loop: the result's type is replaced
\* when the new one differs. The variant never stores the new type.
SymbolicAssign_NoStore(n3, SC, NewTarget) ==
  [nodes |-> n3, Changed |-> FALSE]
SymbolicAssign(n3, SC, NewTarget) ==
  IF NewTarget # n3[SC.Result].ConstraintType
    THEN [nodes |-> [n3 EXCEPT ![SC.Result].ConstraintType = NewTarget],
          Changed |-> TRUE]
    ELSE [nodes |-> n3, Changed |-> FALSE]

\* The forward flow of one constraint on a map that holds its three nodes.
SymbolicFlow(n3, SC) ==
  SymbolicAssign(n3, SC,
    GetWider(n3[SC.Result].ConstraintType,
             SymbolicOpType(n3[SC.LHS], n3[SC.RHS])))

\* The body of the symbolic loop of Solve for one constraint: forward flow
\* into the result.
SymbolicStep(nodes, SC) ==
  SymbolicFlow(EnsureNode(EnsureNode(EnsureNode(nodes, SC.Result), SC.LHS),
                          SC.RHS), SC)

\* Changed accumulated over a pass.
OrChanged(r, Changed) == [r EXCEPT !.Changed = @ \/ Changed]

\* One pass of the symbolic loop over SymbolicConstraints from index i on;
\* acc holds the nodes and Changed so far.
RECURSIVE SymbolicPass(_, _, _)
SymbolicPass(syms, i, acc) ==
  IF i > Len(syms) THEN acc
  ELSE IF acc.Changed
    THEN SymbolicPass(syms, i + 1,
           OrChanged(SymbolicStep(acc.nodes, syms[i]), TRUE))
  ELSE SymbolicPass(syms, i + 1, SymbolicStep(acc.nodes, syms[i]))

\* The iteration bound of the symbolic loop of Solve.
MaxIterations == 25

\* while (Changed && Iterations < 25) of Solve; r is the outcome of the pass
\* just made.
RECURSIVE SymbolicFixpoint(_, _, _)
SymbolicRepeat(syms, r, Iterations) ==
  IF r.Changed THEN SymbolicFixpoint(syms, r.nodes, Iterations + 1)
  ELSE r.nodes

SymbolicFixpoint(syms, nodes, Iterations) ==
  IF Iterations >= MaxIterations THEN nodes
  ELSE SymbolicRepeat(syms,
         SymbolicPass(syms, 1, [nodes |-> nodes, Changed |-> FALSE]),
         Iterations)

\* The type the last loop of Solve computes for a node that is not fixed.
OptimalType(State) ==
  LET Optimal ==
        IF State.IsPtrOffset
          THEN GetWider(State.ConstraintType, getPointerDiffType)
        ELSE IF State.ComputedRange.HasMax
          THEN GetOptimalTypeForRange(State.ComputedRange, State.OriginalType)
        ELSE State.ConstraintType
  IN  GetWider(Optimal, State.ConstraintType)

\* The last loop of Solve: whether a node is put into Updates.
Emitted(State) ==
  ~State.IsFixed /\ OptimalType(State) # State.OriginalType

\* std::map<const NamedDecl*, NodeState> TypeSolver::Solve(ASTContext*):
\* the nodes after the call and the map returned.
Solve(nodes, adj, syms) ==
  LET t == TarjanLoop(1, adj, [cnt |-> 0, stack |-> <<>>, ts |-> <<>>,
                               nodes |-> nodes])
      n2 == SymbolicFixpoint(syms, t.nodes, 0)
      n3 == [d \in DOMAIN n2 |->
               IF Emitted(n2[d])
                 THEN [n2[d] EXCEPT !.ConstraintType = OptimalType(n2[d])]
                 ELSE n2[d]]
  IN  [nodes |-> n3,
       Updates |-> [d \in {e \in DOMAIN n2 : Emitted(n2[e])} |-> n3[d]]]

\* The solver's calls are made by the collector during the traversal, in any
\* order, and Solve consumes the graph once.
CanCall == ~solved /\ solverOps < MaxSolverOps

\* The declared type of a declaration and whether it is a typedef: what the
\* collector reads off the declaration when it registers it.
DeclType(d) == IF d % 3 = 1 THEN "int" ELSE IF d % 3 = 2 THEN "long" ELSE "uint"
IsTypedefDecl(d) == d % 3 = 0

\* History: AddGlobalConstraint(Decl, GlobalType) was issued, before or after
\* the node of Decl existed.
GlobalIssued(Decl, GlobalType) ==
  [Decl |-> Decl, GlobalType |-> GlobalType,
   PreSeeded |-> Decl \notin DOMAIN Nodes]

AddNode ==
  \E Decl \in Decls \cup {NullDeclPtr}, IsFixed \in BOOLEAN :
    /\ CanCall
    /\ Nodes' = AddNodeOp(Nodes, Decl, DeclType(Decl), IsFixed,
                          IsTypedefDecl(Decl))
    /\ addLog' =
         IF Decl = NullDeclPtr THEN addLog
         ELSE [fixed |-> IF IsFixed THEN addLog.fixed \cup {Decl}
                         ELSE addLog.fixed,
               unfixedFirst |->
                 IF Decl \notin DOMAIN Nodes /\ ~IsFixed
                   THEN addLog.unfixedFirst \cup {Decl}
                   ELSE addLog.unfixedFirst,
               added |-> addLog.added \cup {Decl},
               global |-> addLog.global]
    /\ solverOps' = solverOps + 1
    /\ UNCHANGED <<Adjacency, SymbolicConstraints, Updates, solved,
                   bvars, mvars, ovars>>

AddGlobalConstraint ==
  \E Decl \in Decls \cup {NullDeclPtr}, GlobalType \in CandidateTypes :
    /\ CanCall
    /\ Nodes' = AddGlobalConstraintOp(Nodes, Decl, GlobalType)
    /\ addLog' =
         IF Decl = NullDeclPtr THEN addLog
         ELSE [addLog EXCEPT
                 !.unfixedFirst = IF Decl \notin DOMAIN Nodes
                                    THEN @ \cup {Decl} ELSE @,
                 !.global = @ \cup {GlobalIssued(Decl, GlobalType)}]
    /\ solverOps' = solverOps + 1
    /\ UNCHANGED <<Adjacency, SymbolicConstraints, Updates, solved,
                   bvars, mvars, ovars>>

AddPointerOffsetUsage ==
  \E Decl \in Decls \cup {NullDeclPtr} :
    /\ CanCall
    /\ Nodes' = AddPointerOffsetUsageOp(Nodes, Decl)
    /\ solverOps' = solverOps + 1
    /\ UNCHANGED <<Adjacency, SymbolicConstraints, Updates, solved, addLog,
                   bvars, mvars, ovars>>

AddEdge ==
  \E Target \in Decls \cup {NullDeclPtr}, Source \in Decls \cup {NullDeclPtr} :
    /\ CanCall
    /\ Adjacency' = AddEdgeOp(Nodes, Adjacency, Target, Source)
    /\ solverOps' = solverOps + 1
    /\ UNCHANGED <<Nodes, SymbolicConstraints, Updates, solved, addLog,
                   bvars, mvars, ovars>>

AddConstraint ==
  \E Decl \in Decls \cup {NullDeclPtr}, Candidate \in CandidateTypes,
     BaseExpr \in BaseExprs :
    /\ CanCall
    /\ Nodes' = AddConstraintOp(Nodes, Decl, Candidate, BaseExpr)
    /\ solverOps' = solverOps + 1
    /\ UNCHANGED <<Adjacency, SymbolicConstraints, Updates, solved, addLog,
                   bvars, mvars, ovars>>

\* void TypeSolver::AddLoopComparisonConstraint(InductionVar, BoundExpr, Ctx).
\* The bound expression is null, or has the type BoundType given by
\* HelperGetType and is, below parentheses and implicit casts, a reference to
\* the declaration BoundVar (its type is then the declared one) or (BoundVar
\* null) some other expression, whose type may be null.
AddLoopComparisonConstraint ==
  \E InductionVar \in Decls \cup {NullDeclPtr}, HasBoundExpr \in BOOLEAN,
     BoundVar \in Decls \cup {NullDeclPtr},
     BoundType \in {"long", NullType} \cup {DeclType(d) : d \in Decls} :
    /\ CanCall
    /\ BoundVar # NullDeclPtr => BoundType = DeclType(BoundVar)
    /\ ~HasBoundExpr => BoundVar = NullDeclPtr /\ BoundType = NullType
    /\ IF InductionVar = NullDeclPtr \/ ~HasBoundExpr \/ BoundType = NullType
         THEN UNCHANGED <<Nodes, Adjacency>>
         ELSE /\ Adjacency' = IF BoundVar # NullDeclPtr
                                THEN AddEdgeOp(Nodes, Adjacency, BoundVar,
                                               InductionVar)
                                ELSE Adjacency
              /\ Nodes' = AddConstraintOp(Nodes, InductionVar, BoundType, 1)
    /\ solverOps' = solverOps + 1
    /\ UNCHANGED <<SymbolicConstraints, Updates, solved, addLog, bvars, mvars, ovars>>

AddRangeConstraint ==
  \E Decl \in Decls \cup {NullDeclPtr}, Range \in InputRanges :
    /\ CanCall
    /\ Nodes' = AddRangeConstraintOp(Nodes, Decl, Range)
    /\ solverOps' = solverOps + 1
    /\ UNCHANGED <<Adjacency, SymbolicConstraints, Updates, solved, addLog,
                   bvars, mvars, ovars>>

AddSymbolicConstraint ==
  \E Result \in Decls \cup {NullDeclPtr}, Op \in InputOps,
     LHS \in Decls, RHS \in Decls :
    /\ CanCall
    /\ LHS < RHS
    /\ Len(SymbolicConstraints) < MaxSymbolic
    /\ SymbolicConstraints' =
         AddSymbolicConstraintOp(SymbolicConstraints, Result, Op, LHS, RHS)
    /\ solverOps' = solverOps + 1
    /\ UNCHANGED <<Nodes, Adjacency, Updates, solved, addLog, bvars, mvars, ovars>>

CallSolve ==
  /\ ~solved
  /\ LET R == Solve(Nodes, Adjacency, SymbolicConstraints) IN
       /\ Nodes' = R.nodes
       /\ Updates' = R.Updates
  /\ solved' = TRUE
  /\ UNCHANGED <<Adjacency, SymbolicConstraints, solverOps, addLog,
                   bvars, mvars, ovars>>

InitSolver == IdleSolver /\ IdleBoundary /\ IdleMatcher /\ IdleOthers

NextSolver ==
  \/ AddNode
  \/ AddGlobalConstraint
  \/ AddPointerOffsetUsage
  \/ AddEdge
  \/ AddConstraint
  \/ AddLoopComparisonConstraint
  \/ AddRangeConstraint
  \/ AddSymbolicConstraint
  \/ CallSolve

SpecSolver == InitSolver /\ [][NextSolver]_vars

\* ---------------------------------------------------------------------------
\* Properties of the solver

\* The declarations an edge list of d names.
Successors(d) == {Adjacency[d][i] : i \in DOMAIN Adjacency[d]}

\* The declarations reachable from those of S along the edges.
RECURSIVE ReachSet(_)
ReachSet(S) ==
  LET N == S \cup UNION {Successors(d) : d \in S}
  IN  IF N = S THEN S ELSE ReachSet(N)

\* The strongly connected component of d in the constraint graph.
SCCOf(d) == {e \in Decls : e \in ReachSet({d}) /\ d \in ReachSet({e})}

\* The type of a declaration in the output: the update's, or the input type.
ResolvedType(d) ==
  IF d \in DOMAIN Updates THEN Updates[d].ConstraintType
  ELSE Nodes[d].OriginalType

\* C3: after Solve, the members of every strongly connected component of the
\* constraint graph all have the same resolved type, or every member is fixed
\* and keeps its input type; and if one member of a component is fixed, no
\* member of that component is emitted as an update.
C3_SCCMembersAgree ==
  solved =>
    \A d \in DOMAIN Nodes \cap Decls :
      LET M == SCCOf(d) IN
        /\ \/ \A a, b \in M : hasSameType(ResolvedType(a), ResolvedType(b))
           \/ \A a \in M : Nodes[a].IsFixed /\ a \notin DOMAIN Updates
        /\ (\E a \in M : Nodes[a].IsFixed) =>
             \A b \in M : b \notin DOMAIN Updates

\* C4: a node that is fixed when Solve runs, by the AddNode that created it or
\* by any later AddNode for the same declaration, is not in the update map of
\* Solve.
C4_FixedNeverEmitted ==
  solved =>
    \A d \in DOMAIN Nodes :
      (Nodes[d].IsFixed \/ d \in addLog.fixed) => d \notin DOMAIN Updates

\* Solve has run on a node that was created unfixed, fixed by a later AddNode,
\* and whose constraints ask for a type other than its input type.
C4_Witness ==
  /\ solved
  /\ \E d \in addLog.fixed \cap addLog.unfixedFirst :
       /\ Nodes[d].IsFixed
       /\ OptimalType(Nodes[d]) # Nodes[d].OriginalType
       /\ d \notin DOMAIN Updates

\* ---------------------------------------------------------------------------
\* The solver called with the types of any declaration or expression: the
\* interface takes a QualType, and GetWider has branches for record types.

\* The record types handed over as candidates (struct Complete { int x; }).
RecordTypes == {"struct"}

\* AddConstraint with a candidate of record type.
AddRecordConstraint ==
  \E Decl \in Decls, Candidate \in RecordTypes :
    /\ CanCall
    /\ Nodes' = AddConstraintOp(Nodes, Decl, Candidate, 0)
    /\ solverOps' = solverOps + 1
    /\ UNCHANGED <<Adjacency, SymbolicConstraints, Updates, solved, addLog,
                   bvars, mvars, ovars>>

\* AddGlobalConstraint with a global type of record type.
AddRecordGlobalConstraint ==
  \E Decl \in Decls, GlobalType \in RecordTypes :
    /\ CanCall
    /\ Nodes' = AddGlobalConstraintOp(Nodes, Decl, GlobalType)
    /\ addLog' =
         [addLog EXCEPT
            !.unfixedFirst = IF Decl \notin DOMAIN Nodes
                               THEN @ \cup {Decl} ELSE @,
            !.global = @ \cup {GlobalIssued(Decl, GlobalType)}]
    /\ solverOps' = solverOps + 1
    /\ UNCHANGED <<Adjacency, SymbolicConstraints, Updates, solved,
                   bvars, mvars, ovars>>

\* AddSymbolicConstraint for an operation on one declaration (r = x + x).
AddSymbolicConstraintSame ==
  \E Result \in Decls, Op \in InputOps, Operand \in Decls :
    /\ CanCall
    /\ Len(SymbolicConstraints) < MaxSymbolic
    /\ SymbolicConstraints' =
         AddSymbolicConstraintOp(SymbolicConstraints, Result, Op, Operand,
                                 Operand)
    /\ solverOps' = solverOps + 1
    /\ UNCHANGED <<Nodes, Adjacency, Updates, solved, addLog, bvars, mvars, ovars>>

NextSolverAnyType ==
  \/ AddNode
  \/ AddGlobalConstraint
  \/ AddPointerOffsetUsage
  \/ AddEdge
  \/ AddConstraint
  \/ AddLoopComparisonConstraint
  \/ AddRangeConstraint
  \/ AddSymbolicConstraint
  \/ AddRecordConstraint
  \/ AddRecordGlobalConstraint
  \/ AddSymbolicConstraintSame
  \/ CallSolve

SpecSolverAnyType == InitSolver /\ [][NextSolverAnyType]_vars

\* Whether a node of d was marked as a pointer offset, by a call or by the
\* unification of its component.
IsPointerOffsetNode(d) ==
  \E e \in SCCOf(d) \cap DOMAIN Nodes : Nodes[e].IsPtrOffset

\* New is at least as wide as Old, and at equal width not signed where Old
\* was unsigned.
NotNarrower(Old, New) ==
  \/ Old = NullType
  \/ /\ New # NullType
     /\ getTypeSize(New) >= getTypeSize(Old)
     /\ getTypeSize(New) = getTypeSize(Old) =>
          ~(isUnsignedIntegerType(Old) /\ isSignedIntegerType(New))

\* C11: after Solve, every node that is not fixed and is a pointer offset
\* (marked by AddPointerOffsetUsage, or in a strongly connected component with
\* such a node) has a resolved type at least as wide as ptrdiff_t.
C11_PointerOffsetFloor ==
  solved =>
    \A d \in DOMAIN Nodes \cap Decls :
      (~Nodes[d].IsFixed /\ IsPointerOffsetNode(d)) =>
        getTypeSize(ResolvedType(d)) >= getTypeSize(getPointerDiffType)

\* C12: in every call of the solver, Solve included, the ConstraintType of a
\* node only widens: it is never narrower in bits than before the call, and at
\* equal width never goes from unsigned to signed.
C12_ConstraintTypeOnlyWidens ==
  [][\A d \in DOMAIN Nodes :
       NotNarrower(Nodes[d].ConstraintType, Nodes'[d].ConstraintType)]_vars

(***************************************************************************)
(*                    TypeCorrectMatcher (TypeCorrect.cpp)                 *)
(***************************************************************************)

\* Number of matches run() handles before the end of the translation unit.
MaxMatches == 2

\* ValueDecl::getType() and FunctionDecl::getReturnType()
getType(d) == IF d \in FuncDecls THEN "fn" ELSE declType[d]
getReturnType(d) == declType[d]

\* The file a declaration is written in.
DeclFile(d) == IF d = "h" THEN "hdr" ELSE "main"

\* The DeclStmt that is the parent of a variable: S1 declares a and b and is
\* a statement of a block, S2 declares h, S3 declares i in a for header.
ParentStmt(d) == IF d \in {"a", "b"} THEN "S1" ELSE IF d = "h" THEN "S2" ELSE "S3"
StmtDecls(DS) ==
  IF DS = "S1" THEN <<"a", "b">> ELSE IF DS = "S2" THEN <<"h">> ELSE <<"i">>
isSingleDecl(DS) == Len(StmtDecls(DS)) = 1 \/ DS \in splitStmts
IsInLoopHeader(DS) == DS = "S3"

\* A SourceLocation: its file ("none" when invalid), whether it is a macro
\* location, and the token it points at (what it is, and of which
\* declaration or statement).
Loc(file, macro, what, of) ==
  [file |-> file, macro |-> macro, at |-> <<what, of>>]
NoLoc == Loc("none", FALSE, "none", "none")
isInvalid(L) == L.file = "none"

\* How the type of a variable is written: by its name (`int h = ...`), as
\* the expansion of a macro (`#define T int`, `T h = ...`), or as auto with
\* a call as the initializer (`auto h = g();`). The variables of S1 are
\* written by name, and the variable of the for header is not written with
\* auto (its initializer is the only expression the matchers bind for it).
Spellings ==
  {w \in [VarDecls -> {"name", "macro", "auto"}] :
     w["a"] = "name" /\ w["b"] = "name" /\ w["i"] # "auto"}

\* TypeCorrectMatcher::ExpandAuto: the tool is run without -expand-auto
\* (with it ResolveType treats auto as a type written by name).
ExpandAuto == FALSE

\* The deduced type of a variable written with auto is the type of its
\* initializer.
InitAgrees(Var, InitType) ==
  writtenAs[Var] = "auto" =>
    (InitType # NullType /\ hasSameType(getType(Var), InitType))

\* NamedDecl::getLocation(), the begin of the written type of a declaration
\* (a macro location when the type is the expansion of a macro), the range
\* of a DeclStmt, and the range of an expression that initializes, is
\* assigned to or is passed from a variable.
getLocation(d) == Loc(DeclFile(d), FALSE, "name", d)
getTypeLoc(d) ==
  Loc(DeclFile(d), d \in VarDecls /\ writtenAs[d] = "macro", "type", d)
getStmtLoc(DS) == Loc(DeclFile(StmtDecls(DS)[1]), FALSE, "stmt", DS)
getExprLoc(what, d) == Loc(DeclFile(d), FALSE, what, d)

\* Where the header lies: under the project root, under it and matched by the
\* exclude pattern, or outside of it (a system or third-party header).
HdrPaths == {"project", "excluded", "outside"}

\* bool TypeCorrectMatcher::IsModifiable(DeclLoc, SM)
IsModifiable(DeclLoc) ==
  IF isInvalid(DeclLoc) THEN FALSE
  ELSE IF DeclLoc.macro THEN FALSE
  ELSE IF DeclLoc.file = "main" THEN TRUE
  ELSE IF ~ProjectRootSet THEN FALSE
  ELSE IF hdrPath = "excluded" THEN FALSE
  ELSE hdrPath = "project"

\* bool TypeCorrectMatcher::IsWiderType(Current, Candidate, Ctx), for a
\* candidate that is not null
IsWiderType(Current, Candidate) ==
  IF Current = NullType THEN TRUE
  ELSE IF getTypeSize(Candidate) > getTypeSize(Current) THEN TRUE
  ELSE IF getTypeSize(Candidate) = getTypeSize(Current)
    THEN isUnsignedIntegerType(Candidate) /\ isSignedIntegerType(Current)
  ELSE FALSE

\* void TypeCorrectMatcher::RegisterUpdate(Decl, CandidateType, BaseExpr, Ctx),
\* as the new value of WidestTypeMap
RegisterUpdate(map, Decl, CandidateType, BaseExpr) ==
  LET CurrentBestType == IF Decl \in DOMAIN map THEN map[Decl].Type
                         ELSE getType(Decl)
  IN  IF IsWiderType(CurrentBestType, CandidateType)
        THEN IF Decl \in DOMAIN map
               THEN [map EXCEPT ![Decl] = [Type |-> CandidateType,
                                           BaseExpr |-> BaseExpr]]
               ELSE map @@ (Decl :> [Type |-> CandidateType,
                                     BaseExpr |-> BaseExpr])
        ELSE map

\* An edit of the Rewriter.
Edit(kind, L, decl, text) ==
  [kind |-> kind, loc |-> L, decl |-> decl, text |-> text]

\* Rewriter::ReplaceText, InsertTextBefore and InsertTextAfterToken: the
\* Rewriter takes an edit at a valid file location and refuses any other.
RewriterApply(rw, E) ==
  IF isInvalid(E.loc) \/ E.loc.macro THEN rw ELSE rw \cup {E}

\* void TypeCorrectMatcher::InjectCast(ExprToCast, TargetType, Ctx), as the
\* new value of Rewrites
InjectCast(rw, ExprLoc, TargetType) ==
  IF isInvalid(ExprLoc) THEN rw
  ELSE RewriterApply(rw, Edit("cast", ExprLoc, "none", TargetType))

\* The specifier UpdateFormatSpecifiers maps a type to ("" when it maps none).
SpecifierFor(NewType) ==
  LET Canonical == getCanonicalType(NewType)
      Builtin == CASE Canonical = "int" -> "d"
                   [] Canonical = "uint" -> "u"
                   [] Canonical = "long" -> "ld"
                   [] Canonical = "ulong" -> "lu"
                   [] Canonical = "longlong" -> "lld"
                   [] Canonical = "ulonglong" -> "llu"
                   [] OTHER -> ""
  IN  IF hasSameType(Canonical, getSizeType) THEN "zu"
      ELSE IF hasSameType(Canonical, getPointerDiffType) THEN "td"
      ELSE Builtin

\* The edits of the usages of a sequence from index k on.
RECURSIVE SpecifierEdits(_, _, _, _, _)
SpecifierEdits(rw, Usages, k, Decl, NewSpecifier) ==
  IF k > Len(Usages) THEN rw
  ELSE SpecifierEdits(
         IF IsModifiable(Usages[k])
           THEN RewriterApply(rw, Edit("spec", Usages[k], Decl, NewSpecifier))
           ELSE rw,
         Usages, k + 1, Decl, NewSpecifier)

\* void TypeCorrectMatcher::UpdateFormatSpecifiers(Decl, NewType, Ctx), as the
\* new value of Rewrites
UpdateFormatSpecifiers(rw, Decl, NewType) ==
  IF FormatUsageMap[Decl] = <<>> THEN rw
  ELSE IF SpecifierFor(NewType) = "" THEN rw
  ELSE SpecifierEdits(rw, FormatUsageMap[Decl], 1, Decl, SpecifierFor(NewType))

\* void TypeCorrectMatcher::RemoveExplicitCast(CastExpr, Ctx), as the new
\* value of Rewrites
RemoveExplicitCast(rw, CastLoc) ==
  IF ~isInvalid(CastLoc) /\ IsModifiable(CastLoc)
    THEN RewriterApply(rw, Edit("uncast", CastLoc, "none", ""))
    ELSE rw

RECURSIVE RemoveExplicitCasts(_, _, _)
RemoveExplicitCasts(rw, Casts, k) ==
  IF k > Len(Casts) THEN rw
  ELSE RemoveExplicitCasts(RemoveExplicitCast(rw, Casts[k]), Casts, k + 1)

\* The type HandleMultiDecl writes for a variable of the statement.
MultiDeclTargetType(VD) ==
  IF VD \in DOMAIN WidestTypeMap
     /\ (VD \notin VariablesWithNegativeValues
         \/ ~isUnsignedIntegerType(WidestTypeMap[VD].Type))
    THEN WidestTypeMap[VD].Type
    ELSE getType(VD)

\* void TypeCorrectMatcher::HandleMultiDecl(DS, Ctx): one ReplaceText of the
\* whole statement, recorded as the declarations it writes.
HandleMultiDecl(R, DS) ==
  IF DS \in R.stmts THEN R
  ELSE [rw |-> IF isInvalid(getStmtLoc(DS)) \/ getStmtLoc(DS).macro THEN R.rw
               ELSE R.rw \cup { Edit("multi", getStmtLoc(DS), StmtDecls(DS)[k],
                                     MultiDeclTargetType(StmtDecls(DS)[k])) :
                                k \in DOMAIN StmtDecls(DS) },
        stmts |-> R.stmts \cup {DS}]

\* void TypeCorrectMatcher::ResolveType(OldLoc, NewType, Ctx, BoundVar,
\* BaseExpr), on the pair of Rewrites and RewrittenStmts. BoundVar is "none"
\* for nullptr and BaseExpr is 0 for nullptr.
ResolveType(R, OldLoc, NewType, Decl, BoundVar, BaseExpr) ==
  IF BoundVar # "none" /\ ~isSingleDecl(ParentStmt(BoundVar))
     /\ ~IsInLoopHeader(ParentStmt(BoundVar))
    THEN HandleMultiDecl(R, ParentStmt(BoundVar))
  ELSE IF BoundVar # "none" /\ writtenAs[BoundVar] = "auto" /\ ~ExpandAuto
    THEN R
    ELSE LET NewTypeStr == IF UseDecltype /\ BaseExpr # 0 THEN "size_type"
                           ELSE NewType
         IN  IF ~isInvalid(OldLoc) /\ IsModifiable(OldLoc)
               THEN [R EXCEPT !.rw =
                       RewriterApply(@, Edit("type", OldLoc, Decl, NewTypeStr))]
               ELSE R

\* The order of WidestTypeMap, a map keyed by the address of the declaration.
DeclOrder == <<"a", "b", "h", "i", "f">>

\* The body of the loop of onEndOfTranslationUnit for one declaration.
EndOfUnitStep(R, Decl) ==
  IF Decl \notin DOMAIN WidestTypeMap THEN R
  ELSE LET State == WidestTypeMap[Decl] IN
    IF Decl \in VariablesWithNegativeValues
       /\ isUnsignedIntegerType(State.Type)
      THEN R
    ELSE IF Decl \in VarDecls
      THEN LET R1 == IF ~hasSameType(getType(Decl), State.Type)
                       THEN LET R0 == ResolveType(R, getTypeLoc(Decl),
                                                  State.Type, Decl, Decl,
                                                  State.BaseExpr)
                            IN  [R0 EXCEPT !.rw = RemoveExplicitCasts(
                                                    @, CastsToRemove[Decl], 1)]
                       ELSE R
           IN  [R1 EXCEPT !.rw = UpdateFormatSpecifiers(@, Decl, State.Type)]
    ELSE IF ~hasSameType(getReturnType(Decl), State.Type)
      THEN ResolveType(R, getTypeLoc(Decl), State.Type, Decl, "none",
                       State.BaseExpr)
    ELSE R

RECURSIVE EndOfUnitLoop(_, _)
EndOfUnitLoop(R, k) ==
  IF k > Len(DeclOrder) THEN R
  ELSE EndOfUnitLoop(EndOfUnitStep(R, DeclOrder[k]), k + 1)

\* The edits that reach the output: every changed file when the files are
\* overwritten, else the buffer of the main file, written to the stream.
OutputOf(rw) ==
  IF InPlace /\ ProjectRootSet THEN rw ELSE {E \in rw : E.loc.file = "main"}

\* The types of the expressions the matchers bind as sources (the result of a
\* call, sizeof, ...), as GetTypeFromExpression and Expr::getType() give them.
\* GetTypeFromExpression gives the null type for a sum with a literal operand.
SourceTypes == {"int", "size_t"}

\* TypeCorrectMatcher::TypeCorrectMatcher and the translation unit
InitMatcher ==
  /\ UseDecltype \in BOOLEAN
  /\ InPlace \in BOOLEAN
  /\ ProjectRootSet \in BOOLEAN
  /\ hdrPath \in HdrPaths
  /\ writtenAs \in Spellings
  /\ WidestTypeMap = <<>>
  /\ VariablesWithNegativeValues = {}
  /\ FormatUsageMap = [v \in VarDecls |-> <<>>]
  /\ CastsToRemove = [v \in VarDecls |-> <<>>]
  /\ RewrittenStmts = {}
  /\ Rewrites = {}
  /\ Written = {}
  /\ phase = "matching"
  /\ matchCount = 0
  /\ IdleBoundary
  /\ IdleSolver
  /\ IdleOthers

CanMatch == phase = "matching" /\ matchCount < MaxMatches

\* What no handler of run() changes.
MatchFrame ==
  /\ matchCount' = matchCount + 1
  /\ UNCHANGED <<UseDecltype, InPlace, ProjectRootSet, hdrPath, writtenAs,
                 RewrittenStmts, Written, bvars, svars, ovars>>

\* A null candidate type is dereferenced (QualType::getCanonicalType() in
\* IsWiderType and in the comparison before InjectCast): the run ends.
Crash ==
  /\ phase' = "crashed"
  /\ UNCHANGED <<WidestTypeMap, Rewrites>>

\* The shape of cases 1, 2, 4, 5, 6 and 7 of run(): a modifiable declaration
\* takes the candidate, any other gets a cast around the expression when the
\* canonical types differ.
RegisterOrCast(Decl, CandidateType, DeclaredType, ExprLoc, CastTarget) ==
  IF CandidateType = NullType THEN Crash
  ELSE /\ phase' = phase
       /\ IF IsModifiable(getLocation(Decl))
            THEN /\ WidestTypeMap' =
                      RegisterUpdate(WidestTypeMap, Decl, CandidateType, 0)
                 /\ UNCHANGED Rewrites
            ELSE /\ Rewrites' =
                      IF ~hasSameType(DeclaredType, CandidateType)
                        THEN InjectCast(Rewrites, ExprLoc, CastTarget)
                        ELSE Rewrites
                 /\ UNCHANGED WidestTypeMap

\* run(), case 1: a variable initialized from a source expression
MatchVarInit ==
  \E Var \in {"a", "h"}, InitType \in SourceTypes \cup {NullType},
     IsCast \in BOOLEAN :
    /\ CanMatch
    /\ InitAgrees(Var, InitType)
    /\ CastsToRemove' =
         IF IsCast THEN [CastsToRemove EXCEPT
                           ![Var] = Append(@, getExprLoc("init", Var))]
         ELSE CastsToRemove
    /\ RegisterOrCast(Var, InitType, getType(Var), getExprLoc("init", Var),
                      getType(Var))
    /\ MatchFrame
    /\ UNCHANGED <<VariablesWithNegativeValues, FormatUsageMap>>

\* run(), case 2: a return statement of a function definition
MatchReturn ==
  \E Func \in FuncDecls, ActualRetType \in SourceTypes :
    /\ CanMatch
    /\ RegisterOrCast(Func, ActualRetType, getReturnType(Func),
                      getExprLoc("ret", Func), getReturnType(Func))
    /\ MatchFrame
    /\ UNCHANGED <<VariablesWithNegativeValues, FormatUsageMap, CastsToRemove>>

\* run(), case 3: the variable of a for loop initialized from a source
\* expression; HasInstance says the expression is a member call, whose object
\* is bound as the base expression.
MatchLoopInit ==
  \E LoopVar \in {"i"}, LimitType \in SourceTypes \cup {NullType},
     HasInstance \in BOOLEAN :
    /\ CanMatch
    /\ InitAgrees(LoopVar, LimitType)
    /\ IF ~IsModifiable(getLocation(LoopVar))
         THEN UNCHANGED <<WidestTypeMap, phase>>
         ELSE IF LimitType = NullType
           THEN phase' = "crashed" /\ UNCHANGED WidestTypeMap
           ELSE /\ WidestTypeMap' =
                     RegisterUpdate(WidestTypeMap, LoopVar, LimitType,
                                    IF HasInstance THEN 1 ELSE 0)
                /\ phase' = phase
    /\ MatchFrame
    /\ UNCHANGED <<VariablesWithNegativeValues, FormatUsageMap, CastsToRemove,
                   Rewrites>>

\* run(), case 4: an assignment of a source expression to a variable
MatchAssign ==
  \E AssignVar \in {"b", "h"}, ExprType \in SourceTypes \cup {NullType},
     IsCast \in BOOLEAN :
    /\ CanMatch
    /\ CastsToRemove' =
         IF IsCast THEN [CastsToRemove EXCEPT
                           ![AssignVar] = Append(@, getExprLoc("rhs", AssignVar))]
         ELSE CastsToRemove
    /\ RegisterOrCast(AssignVar, ExprType, getType(AssignVar),
                      getExprLoc("rhs", AssignVar), getType(AssignVar))
    /\ MatchFrame
    /\ UNCHANGED <<VariablesWithNegativeValues, FormatUsageMap>>

\* run(), case 5: a variable passed as the argument of a parameter
MatchArg ==
  \E ArgVar \in {"a", "h"}, ParamType \in {"ulonglong"} :
    /\ CanMatch
    /\ RegisterOrCast(ArgVar, ParamType, getType(ArgVar),
                      getExprLoc("arg", ArgVar), ParamType)
    /\ MatchFrame
    /\ UNCHANGED <<VariablesWithNegativeValues, FormatUsageMap, CastsToRemove>>

\* run(), case 6: a variable initialized with a difference of pointers
MatchPtrDiffInit ==
  \E PtrInitVar \in {"a", "h"} :
    /\ CanMatch
    /\ InitAgrees(PtrInitVar, getPointerDiffType)
    /\ RegisterOrCast(PtrInitVar, getPointerDiffType, getType(PtrInitVar),
                      getExprLoc("init", PtrInitVar), getType(PtrInitVar))
    /\ MatchFrame
    /\ UNCHANGED <<VariablesWithNegativeValues, FormatUsageMap, CastsToRemove>>

\* run(), case 7: a difference of pointers assigned to a variable
MatchPtrDiffAssign ==
  \E PtrAssignVar \in {"b"} :
    /\ CanMatch
    /\ RegisterOrCast(PtrAssignVar, getPointerDiffType, getType(PtrAssignVar),
                      getExprLoc("rhs", PtrAssignVar), getType(PtrAssignVar))
    /\ MatchFrame
    /\ UNCHANGED <<VariablesWithNegativeValues, FormatUsageMap, CastsToRemove>>

\* run(), case 8: a variable initialized with a negative literal
MatchNegInit ==
  \E NegInitVar \in {"b"} :
    /\ CanMatch
    /\ VariablesWithNegativeValues' =
         VariablesWithNegativeValues \cup {NegInitVar}
    /\ MatchFrame
    /\ UNCHANGED <<WidestTypeMap, FormatUsageMap, CastsToRemove, Rewrites,
                   phase>>

\* run(), case 9: a negative literal assigned to a variable
MatchNegAssign ==
  \E NegAssignVar \in {"a", "i"} :
    /\ CanMatch
    /\ VariablesWithNegativeValues' =
         VariablesWithNegativeValues \cup {NegAssignVar}
    /\ MatchFrame
    /\ UNCHANGED <<WidestTypeMap, FormatUsageMap, CastsToRemove, Rewrites,
                   phase>>

\* The places of the length and conversion of a format: in a literal of the
\* main file, in a literal that a macro expands to, or not located.
FormatLocs(call) ==
  {Loc("main", FALSE, "fmt", call), Loc("main", TRUE, "fmt", call), NoLoc}

\* run(), case 10, with ScanPrintfArgs: a call of printf whose format, when
\* it is a string literal, has one integer conversion, for the variable V
MatchPrintf ==
  \E IsLiteral \in BOOLEAN, V \in {"a", "i"}, SpecifierLoc \in FormatLocs("printf") :
    /\ CanMatch
    /\ FormatUsageMap' =
         IF IsLiteral /\ ~isInvalid(SpecifierLoc)
           THEN [FormatUsageMap EXCEPT ![V] = Append(@, SpecifierLoc)]
           ELSE FormatUsageMap
    /\ MatchFrame
    /\ UNCHANGED <<WidestTypeMap, VariablesWithNegativeValues, CastsToRemove,
                   Rewrites, phase>>

\* run(), case 11, with ScanScanfArgs: the same for a call of scanf with &V
MatchScanf ==
  \E IsLiteral \in BOOLEAN, V \in {"b"}, SpecifierLoc \in FormatLocs("scanf") :
    /\ CanMatch
    /\ FormatUsageMap' =
         IF IsLiteral /\ ~isInvalid(SpecifierLoc)
           THEN [FormatUsageMap EXCEPT ![V] = Append(@, SpecifierLoc)]
           ELSE FormatUsageMap
    /\ MatchFrame
    /\ UNCHANGED <<WidestTypeMap, VariablesWithNegativeValues, CastsToRemove,
                   Rewrites, phase>>

\* run(), case 12: a comparison in a condition. The matcher binds rel_var_ref
\* to the VarDecl and the handler asks for a DeclRefExpr of that name, which
\* is null: nothing is registered.
MatchRelational ==
  /\ CanMatch
  /\ MatchFrame
  /\ UNCHANGED <<WidestTypeMap, VariablesWithNegativeValues, FormatUsageMap,
                 CastsToRemove, Rewrites, phase>>

\* void TypeCorrectMatcher::onEndOfTranslationUnit(Ctx)
EndOfTranslationUnit ==
  /\ phase = "matching"
  /\ LET R == EndOfUnitLoop([rw |-> Rewrites, stmts |-> RewrittenStmts], 1) IN
       /\ Rewrites' = R.rw
       /\ RewrittenStmts' = R.stmts
       /\ Written' = OutputOf(R.rw)
  /\ phase' = "done"
  /\ UNCHANGED <<UseDecltype, InPlace, ProjectRootSet, hdrPath, writtenAs,
                 WidestTypeMap, VariablesWithNegativeValues, FormatUsageMap,
                 CastsToRemove, matchCount, bvars, svars, ovars>>

NextMatcher ==
  \/ MatchRelational
  \/ MatchVarInit
  \/ MatchReturn
  \/ MatchLoopInit
  \/ MatchAssign
  \/ MatchArg
  \/ MatchPtrDiffInit
  \/ MatchPtrDiffAssign
  \/ MatchNegInit
  \/ MatchNegAssign
  \/ MatchPrintf
  \/ MatchScanf
  \/ EndOfTranslationUnit

SpecMatcher == InitMatcher /\ [][NextMatcher]_vars

\* ---------------------------------------------------------------------------
\* Properties of the matcher

\* The type a declaration has in the input and in the output.
InputType(d) == IF d \in FuncDecls THEN getReturnType(d) ELSE getType(d)
OutputType(d) ==
  IF \E E \in Written : E.kind \in {"type", "multi"} /\ E.decl = d
    THEN (CHOOSE E \in Written : E.kind \in {"type", "multi"} /\ E.decl = d).text
    ELSE InputType(d)

\* The file of a location is one IsModifiable classifies as modifiable.
InModifiableFile(L) ==
  L.file = "main" \/ (L.file = "hdr" /\ ProjectRootSet /\ hdrPath = "project")

\* C1: every edit the tool applies (type replacement, multi-declaration
\* split, cast removal, cast injection, specifier replacement) is at a valid
\* location that is not a macro location, in a file classified Modifiable.
C1_EditsOnlyInModifiableFiles ==
  phase = "done" =>
    \A E \in Written :
      ~isInvalid(E.loc) /\ ~E.loc.macro /\ InModifiableFile(E.loc)

\* C2: in the output every declaration has its input type, or it is
\* Modifiable and its output type is strictly wider than its input type, or
\* of equal width and unsigned where the input type is signed.
C2_OutputTypeOnlyWidens ==
  phase = "done" =>
    \A d \in TUDecls :
      \/ OutputType(d) = InputType(d)
      \/ /\ IsModifiable(getLocation(d))
         /\ \/ getTypeSize(OutputType(d)) > getTypeSize(InputType(d))
            \/ /\ getTypeSize(OutputType(d)) = getTypeSize(InputType(d))
               /\ isUnsignedIntegerType(OutputType(d))
               /\ isSignedIntegerType(InputType(d))

\* C9: a variable that a negative literal initializes or is assigned to does
\* not have an unsigned type in the output, whatever the order of the
\* matches.
C9_NegativeLiteralBlocksUnsigned ==
  phase = "done" =>
    \A v \in VariablesWithNegativeValues :
      ~isUnsignedIntegerType(OutputType(v))

\* C10: when the declared type of a variable is changed to T, every
\* specifier location recorded for the variable is rewritten to the specifier
\* the mapping assigns to T.
C10_SpecifiersFollowType ==
  phase = "done" =>
    \A v \in VarDecls :
      (OutputType(v) # InputType(v) /\ SpecifierFor(OutputType(v)) # "") =>
        \A k \in DOMAIN FormatUsageMap[v] :
          \E E \in Written :
            /\ E.kind = "spec"
            /\ E.loc = FormatUsageMap[v][k]
            /\ E.text = SpecifierFor(OutputType(v))

(***************************************************************************)
(*        The tool run on a unit, and run again on its own output          *)
(***************************************************************************)

\* The statements of the unit that the matchers bind:
\*   init:   T v = strlen(s);   or   T v = f(s);        (v is a or h)
\*   ret:    return strlen(s);  or   return a;          (in f)
\*   printf: printf("%d", a);
\*   neg:    a = -1;
\* src names the type of an expression of the library (strlen: size_t) or the
\* declaration of the unit whose type the expression has.
Stmt(case, decl, src) == [case |-> case, decl |-> decl, src |-> src]
UnitStatements ==
  {Stmt("init", v, t) : v \in {"a", "h"}, t \in {"size_t", "f"}}
    \cup {Stmt("ret", "f", t) : t \in {"size_t", "a"}}
    \cup {Stmt("printf", "a", "none"), Stmt("neg", "a", "none")}

\* The units: the statements in the order the traversal meets them; a
\* variable has one initializer.
Units ==
  {u \in UNION {[1..n -> UnitStatements] : n \in 1..MaxMatches} :
     \A j, k \in DOMAIN u :
       (j # k /\ u[j].case = "init" /\ u[k].case = "init") =>
         u[j].decl # u[k].decl}

\* GetTypeFromExpression for a call, and Expr::getType() for a reference to
\* a variable: the type the callee returns or the variable has, as written.
SrcType(src) ==
  IF src \in FuncDecls THEN getReturnType(src)
  ELSE IF src \in VarDecls THEN getType(src)
  ELSE src

\* The tool started on a unit: a is written with int or with size_t, and an
\* initializer may be written in an explicit cast.
InitRerun ==
  /\ UseDecltype \in BOOLEAN
  /\ InPlace \in BOOLEAN
  /\ ProjectRootSet \in BOOLEAN
  /\ hdrPath \in HdrPaths
  /\ writtenAs = [v \in VarDecls |-> "name"]
  /\ WidestTypeMap = <<>>
  /\ VariablesWithNegativeValues = {}
  /\ FormatUsageMap = [v \in VarDecls |-> <<>>]
  /\ CastsToRemove = [v \in VarDecls |-> <<>>]
  /\ RewrittenStmts = {}
  /\ Rewrites = {}
  /\ Written = {}
  /\ phase = "matching"
  /\ matchCount = 0
  /\ \E T \in {"int", "size_t"} : declType = [WrittenTypes EXCEPT !["a"] = T]
  /\ splitStmts = {}
  /\ castAt \in SUBSET {getExprLoc("init", "a"), getExprLoc("init", "h")}
  /\ unit \in Units
  /\ runNo = 1
  /\ IdleBoundary
  /\ IdleSolver
  /\ IdleMerge
  /\ IdleFactFiles
  /\ IdleMain
  /\ IdleRange

\* The statement the traversal is at.
AtStatement(case) ==
  /\ CanMatch
  /\ matchCount < Len(unit)
  /\ unit[matchCount + 1].case = case

\* run(), case 1, on the initializer of the unit
RunVarInit ==
  /\ AtStatement("init")
  /\ LET S == unit[matchCount + 1] IN
       /\ CastsToRemove' =
            IF getExprLoc("init", S.decl) \in castAt
              THEN [CastsToRemove EXCEPT
                      ![S.decl] = Append(@, getExprLoc("init", S.decl))]
              ELSE CastsToRemove
       /\ RegisterOrCast(S.decl, SrcType(S.src), getType(S.decl),
                         getExprLoc("init", S.decl), getType(S.decl))
  /\ MatchFrame
  /\ UNCHANGED <<VariablesWithNegativeValues, FormatUsageMap>>

\* run(), case 2, on the return statement of the unit
RunReturn ==
  /\ AtStatement("ret")
  /\ LET S == unit[matchCount + 1] IN
       RegisterOrCast(S.decl, SrcType(S.src), getReturnType(S.decl),
                      getExprLoc("ret", S.decl), getReturnType(S.decl))
  /\ MatchFrame
  /\ UNCHANGED <<VariablesWithNegativeValues, FormatUsageMap, CastsToRemove>>

\* run(), case 9, on the assignment of the unit
RunNegAssign ==
  /\ AtStatement("neg")
  /\ VariablesWithNegativeValues' =
       VariablesWithNegativeValues \cup {unit[matchCount + 1].decl}
  /\ MatchFrame
  /\ UNCHANGED <<WidestTypeMap, FormatUsageMap, CastsToRemove, Rewrites,
                 phase>>

\* run(), case 10, on the call of printf of the unit
RunPrintf ==
  /\ AtStatement("printf")
  /\ FormatUsageMap' =
       [FormatUsageMap EXCEPT
          ![unit[matchCount + 1].decl] =
             Append(@, Loc("main", FALSE, "fmt", "printf"))]
  /\ MatchFrame
  /\ UNCHANGED <<WidestTypeMap, VariablesWithNegativeValues, CastsToRemove,
                 Rewrites, phase>>

\* onEndOfTranslationUnit, once the traversal has met every statement
EndOfUnit ==
  /\ matchCount = Len(unit)
  /\ EndOfTranslationUnit

\* The tool started again, with the same options, on what the first run
\* wrote: the declarations have the types written, a statement the first run
\* split is one statement per variable, an injected cast is an explicit cast
\* and a removed one is none.
RunAgain ==
  /\ phase = "done"
  /\ runNo = 1
  /\ declType' = [d \in TUDecls |-> OutputType(d)]
  /\ splitStmts' =
       splitStmts \cup {E.loc.at[2] : E \in {W \in Written : W.kind = "multi"}}
  /\ castAt' =
       (castAt \ {E.loc : E \in {W \in Written : W.kind = "uncast"}})
         \cup {E.loc : E \in {W \in Written : W.kind = "cast"}}
  /\ runNo' = 2
  /\ WidestTypeMap' = <<>>
  /\ VariablesWithNegativeValues' = {}
  /\ FormatUsageMap' = [v \in VarDecls |-> <<>>]
  /\ CastsToRemove' = [v \in VarDecls |-> <<>>]
  /\ RewrittenStmts' = {}
  /\ Rewrites' = {}
  /\ Written' = {}
  /\ phase' = "matching"
  /\ matchCount' = 0
  /\ UNCHANGED <<UseDecltype, InPlace, ProjectRootSet, hdrPath, writtenAs,
                 unit, bvars, svars, gvars, hvars, cvars, xvars>>

NextRerun ==
  \/ RunVarInit
  \/ RunReturn
  \/ RunNegAssign
  \/ RunPrintf
  \/ EndOfUnit
  \/ RunAgain

SpecRerun == InitRerun /\ [][NextRerun]_vars

\* Every declaration an initializer or a return statement of the unit binds
\* is written with the type of the expression.
TypesMatch ==
  \A k \in DOMAIN unit :
    unit[k].case \in {"init", "ret"} =>
      hasSameType(declType[unit[k].decl], SrcType(unit[k].src))

\* C13: the run of the tool on the output of a run with the same options
\* makes no edit, and a run on a unit whose types already match makes no
\* edit.
C13_SecondRunMakesNoEdit ==
  phase = "done" => ((runNo = 2 \/ TypesMatch) => Written = {})

(***************************************************************************)
(*                    FactManager: MergeFacts                              *)
(***************************************************************************)

\* A std::string is a sequence of characters; a run of characters that are
\* neither a TAB nor a newline nor a leading '#' is one element of it.
Str(run) == <<run>>

\* struct SymbolFact
SymbolFact(USR, TypeName, IsField, IsTypedef) ==
  [USR |-> USR, TypeName |-> TypeName, IsField |-> IsField,
   IsTypedef |-> IsTypedef]

\* GetTypeRank
GetTypeRank(T) ==
  IF T = Str("unsigned char") \/ T = Str("char") THEN 1
  ELSE IF T = Str("short") \/ T = Str("unsigned short") THEN 2
  ELSE IF T = Str("int") \/ T = Str("unsigned int") \/ T = Str("unsigned")
    THEN 3
  ELSE IF T = Str("long") \/ T = Str("unsigned long") THEN 4
  ELSE IF T = Str("size_t") \/ T = Str("std::size_t") THEN 5
  ELSE IF T = Str("long long") \/ T = Str("unsigned long long") THEN 6
  ELSE IF T = Str("ptrdiff_t") \/ T = Str("std::ptrdiff_t") THEN 5
  ELSE 0

\* std::map operator[] followed by an assignment
MapPut(M, Key, Value) ==
  [k \in DOMAIN M \cup {Key} |-> IF k = Key THEN Value ELSE M[k]]

\* MergeFacts: the conflict resolution of a fact whose USR is in the map.
\* The rank of the new type name is compared with `>=` in the variant.
MergeConflict_LastWins(Current, Raw) ==
  [Current EXCEPT
     !.TypeName = IF GetTypeRank(Raw.TypeName) >= GetTypeRank(@)
                    THEN Raw.TypeName ELSE @,
     !.IsTypedef = IF Raw.IsTypedef THEN TRUE ELSE @]
MergeConflict(Current, Raw) ==
  [Current EXCEPT
     !.TypeName = IF GetTypeRank(Raw.TypeName) > GetTypeRank(@)
                    THEN Raw.TypeName ELSE @,
     !.IsTypedef = IF Raw.IsTypedef THEN TRUE ELSE @]

\* MergeFacts: the body of the loop
MergeRaw(M, Raw) ==
  IF Raw.USR \notin DOMAIN M
    THEN MapPut(M, Raw.USR, Raw)
    ELSE [M EXCEPT ![Raw.USR] = MergeConflict(@, Raw)]

\* MergeFacts: the loop from the i-th fact on
RECURSIVE MergeFrom(_, _, _)
MergeFrom(Raws, i, M) ==
  IF i > Len(Raws) THEN M
  ELSE MergeFrom(Raws, i + 1, MergeRaw(M, Raws[i]))

MergeFacts(Raws) == MergeFrom(Raws, 1, <<>>)

\* Largest number of facts in the vector MergeFacts is called with.
MaxRawFacts == 3

\* The facts of the vector: two symbols, two type names of equal rank (int,
\* unsigned) and one of no rank (T), and one fact that says X is a field.
FactUSRs == {Str("X"), Str("Y")}
FactTypeNames == {Str("int"), Str("unsigned"), Str("T")}
FactInputs ==
  {SymbolFact(u, t, FALSE, d) :
     u \in FactUSRs, t \in FactTypeNames, d \in BOOLEAN}
    \cup {SymbolFact(Str("X"), Str("int"), TRUE, FALSE)}

InitMerge ==
  /\ RawFacts \in UNION {[1..n -> FactInputs] : n \in 0..MaxRawFacts}
  /\ Merged = <<>>
  /\ Previous = <<>>
  /\ mergeCalls = 0
  /\ IdleBoundary
  /\ IdleSolver
  /\ IdleMatcher
  /\ IdleRerun
  /\ IdleFactFiles
  /\ IdleMain
  /\ IdleRange

\* MergeFacts(RawFacts)
MergeFactsCall ==
  /\ mergeCalls = 0
  /\ Merged' = MergeFacts(RawFacts)
  /\ mergeCalls' = 1
  /\ UNCHANGED <<RawFacts, Previous, bvars, svars, mvars, rvars, hvars,
                 cvars, xvars>>

\* MergeFacts called again with the same facts in another order
MergeFactsReordered ==
  /\ mergeCalls = 1
  /\ \E p \in Permutations(DOMAIN RawFacts) :
       /\ RawFacts' = [i \in DOMAIN RawFacts |-> RawFacts[p[i]]]
       /\ Merged' = MergeFacts(RawFacts')
  /\ Previous' = Merged
  /\ mergeCalls' = 2
  /\ UNCHANGED <<bvars, svars, mvars, rvars, hvars, cvars, xvars>>

NextMerge ==
  \/ MergeFactsCall
  \/ MergeFactsReordered

SpecMerge == InitMerge /\ [][NextMerge]_vars

\* C14: MergeFacts returns the same map for the same facts in any order.
C14_MergeOrderIndependent ==
  mergeCalls = 2 => Merged = Previous

\* The positions of the facts of a symbol in the vector.
FactsOf(USR) == {i \in DOMAIN RawFacts : RawFacts[i].USR = USR}

\* The position of the first fact of the symbol whose type name has the
\* highest rank among the facts of the symbol.
FirstOfHighestRank(USR) ==
  CHOOSE i \in FactsOf(USR) :
    /\ \A j \in FactsOf(USR) :
         GetTypeRank(RawFacts[j].TypeName) <= GetTypeRank(RawFacts[i].TypeName)
    /\ \A j \in FactsOf(USR) :
         GetTypeRank(RawFacts[j].TypeName) = GetTypeRank(RawFacts[i].TypeName)
           => i <= j

\* C15: the map MergeFacts returns has one fact for each symbol of the
\* vector; its type name is the first of the highest rank among the facts of
\* the symbol, and it is a typedef iff one of them is.
C15_MergeByRank ==
  mergeCalls >= 1 =>
    /\ DOMAIN Merged = {RawFacts[i].USR : i \in DOMAIN RawFacts}
    /\ \A u \in DOMAIN Merged :
         /\ Merged[u].USR = u
         /\ Merged[u].TypeName = RawFacts[FirstOfHighestRank(u)].TypeName
         /\ Merged[u].IsTypedef = (\E i \in FactsOf(u) : RawFacts[i].IsTypedef)

\* Merged: two facts of a symbol have type names of the same, highest rank,
\* and only the later one is a typedef.
C15_Witness ==
  /\ mergeCalls >= 1
  /\ \E i, j \in DOMAIN RawFacts :
       /\ i < j
       /\ RawFacts[i].USR = RawFacts[j].USR
       /\ i = FirstOfHighestRank(RawFacts[i].USR)
       /\ GetTypeRank(RawFacts[i].TypeName) = GetTypeRank(RawFacts[j].TypeName)
       /\ RawFacts[i].TypeName # RawFacts[j].TypeName
       /\ RawFacts[j].IsTypedef
       /\ ~RawFacts[i].IsTypedef
       /\ Merged[RawFacts[i].USR].IsTypedef

(***************************************************************************)
(*        FactManager: WriteFacts, ReadFacts, IsConvergenceReached         *)
(***************************************************************************)

\* DELIMITER, the end of a line, and the character that starts a comment
TAB == "\t"
NL == "\n"
HASH == "#"

\* `Out << (Flag ? "1" : "0")`
FlagText(Flag) == IF Flag THEN Str("1") ELSE Str("0")

\* WriteFacts: the line written for a fact
FactLine(F) ==
  F.USR \o <<TAB>> \o F.TypeName \o <<TAB>> \o FlagText(F.IsField)
    \o <<TAB>> \o FlagText(F.IsTypedef) \o <<NL>>

\* The keys of the maps of facts in the order of std::map<std::string, _>:
\* "#X" < "X" < "Y".
KeyOrder == << <<HASH, "X">>, Str("X"), Str("Y") >>

\* WriteFacts: the loop over the map, from the k-th key on
RECURSIVE WriteFrom(_, _, _)
WriteFrom(M, k, Out) ==
  IF k > Len(KeyOrder) THEN Out
  ELSE IF KeyOrder[k] \in DOMAIN M
    THEN WriteFrom(M, k + 1, Out \o FactLine(M[KeyOrder[k]]))
    ELSE WriteFrom(M, k + 1, Out)

\* The text WriteFacts puts in the file.
WriteFacts(M) == WriteFrom(M, 1, <<>>)

\* std::getline called until it fails: the pieces of S that end with Delim,
\* and the characters after the last Delim if there are any.
RECURSIVE GetLineFrom(_, _, _, _, _)
GetLineFrom(S, Delim, i, Cur, Acc) ==
  IF i > Len(S) THEN (IF Cur = <<>> THEN Acc ELSE Append(Acc, Cur))
  ELSE IF S[i] = Delim
    THEN GetLineFrom(S, Delim, i + 1, <<>>, Append(Acc, Cur))
    ELSE GetLineFrom(S, Delim, i + 1, Append(Cur, S[i]), Acc)

GetLines(S, Delim) == GetLineFrom(S, Delim, 1, <<>>, <<>>)

\* ReadFacts: the fact of a line of three parts or more; IsTypedef keeps the
\* value the constructor gives it when the line has no fourth part.
FactOfParts(Parts) ==
  SymbolFact(Parts[1], Parts[2], Parts[3] = Str("1"),
             IF Len(Parts) >= 4 THEN Parts[4] = Str("1") ELSE FALSE)

\* ReadFacts: the parts of a line pushed back, or the line skipped
PushParts(Parts, Out) ==
  IF Len(Parts) >= 3 THEN Append(Out, FactOfParts(Parts)) ELSE Out

\* ReadFacts: the body of the loop over the lines
ReadLine(Line, Out) ==
  IF Line = <<>> \/ Line[1] = HASH THEN Out
  ELSE PushParts(GetLines(Line, TAB), Out)

RECURSIVE ReadFrom(_, _, _)
ReadFrom(Lines, i, Out) ==
  IF i > Len(Lines) THEN Out
  ELSE ReadFrom(Lines, i + 1, ReadLine(Lines[i], Out))

\* The vector ReadFacts leaves in Out after reading a file with this text.
ReadFacts(Text, Out) == ReadFrom(GetLines(Text, NL), 1, Out)

\* IsConvergenceReached: ExistingMap[F.USR] = F for each fact of the vector
RECURSIVE ExistingMapFrom(_, _, _)
ExistingMapFrom(Vector, i, M) ==
  IF i > Len(Vector) THEN M
  ELSE ExistingMapFrom(Vector, i + 1, MapPut(M, Vector[i].USR, Vector[i]))

ExistingMap(Vector) == ExistingMapFrom(Vector, 1, <<>>)

\* operator== of std::map<std::string, SymbolFact>: the same keys, each with
\* a fact equal in its four fields.
MapsEqual(A, B) ==
  /\ DOMAIN A = DOMAIN B
  /\ \A k \in DOMAIN A :
       /\ A[k].USR = B[k].USR
       /\ A[k].TypeName = B[k].TypeName
       /\ A[k].IsField = B[k].IsField
       /\ A[k].IsTypedef = B[k].IsTypedef

\* IsConvergenceReached, for a file that opens. The variant compares the
\* sizes only.
Converged_SizesOnly(Existing, NewFacts) ==
  Cardinality(DOMAIN Existing) = Cardinality(DOMAIN NewFacts)
Converged(Existing, NewFacts) ==
  IF Cardinality(DOMAIN Existing) # Cardinality(DOMAIN NewFacts) THEN FALSE
  ELSE MapsEqual(Existing, NewFacts)

IsConvergenceReached(File, NewFacts) ==
  IF ~File.exists THEN FALSE
  ELSE Converged(ExistingMap(ReadFacts(File.text, <<>>)), NewFacts)

\* Largest number of lines of a fact file that WriteFacts did not write.
MaxLines == 2

\* The facts of the maps the caller holds, and the maps: the fact of a key
\* has the key as its USR.
FactsFor(USR) ==
  {SymbolFact(USR, Str("int"), FALSE, FALSE),
   SymbolFact(USR, Str("long"), FALSE, FALSE),
   SymbolFact(USR, Str("int"), TRUE, FALSE),
   SymbolFact(USR, Str("int"), FALSE, TRUE)}
MapFacts ==
  FactsFor(Str("X"))
    \cup {SymbolFact(Str("Y"), Str("int"), FALSE, FALSE),
          SymbolFact(<<HASH, "X">>, Str("long"), FALSE, FALSE)}
MapKeys == {KeyOrder[k] : k \in DOMAIN KeyOrder}
FactMaps ==
  UNION {{M \in [K -> MapFacts] : \A u \in K : M[u].USR = u} :
           K \in SUBSET MapKeys}

\* The lines of a file somebody else wrote: records of four columns, a legacy
\* record of three, a record of two, a comment and a blank line.
FileLines ==
  {FactLine(F) : F \in MapFacts}
    \cup {Str("X") \o <<TAB>> \o Str("int") \o <<TAB>> \o Str("1") \o <<NL>>,
          Str("X") \o <<TAB>> \o Str("int") \o <<NL>>,
          <<HASH, " comment", NL>>,
          <<NL>>}

RECURSIVE Concat(_, _)
Concat(Lines, i) ==
  IF i > Len(Lines) THEN <<>> ELSE Lines[i] \o Concat(Lines, i + 1)

FileTexts ==
  {Concat(L, 1) : L \in UNION {[1..n -> FileLines] : n \in 0..MaxLines}}

GlobalFacts == "global.facts"

InitFactFile ==
  /\ Facts \in FactMaps
  /\ \E File \in {NoFile} \cup {[exists |-> TRUE, text |-> T] : T \in FileTexts} :
       files = [n \in FileNames |-> IF n = GlobalFacts THEN File ELSE NoFile]
  /\ OutFacts = <<>>
  /\ ioCall = "none"
  /\ ioPrev = "none"
  /\ ioRet = FALSE
  /\ IdleBoundary
  /\ IdleSolver
  /\ IdleMatcher
  /\ IdleRerun
  /\ IdleMerge
  /\ IdleMain
  /\ IdleRange

\* The variables no call of the FactManager changes.
FactFileFrame ==
  /\ ioPrev' = ioCall
  /\ UNCHANGED <<Facts, bvars, svars, mvars, rvars, gvars, cvars, xvars>>

\* WriteFacts(FilePath, Facts): a path in a directory that does not exist
\* cannot be opened.
WriteFactsCall ==
  /\ \E Path \in {GlobalFacts, "missing/dir.facts"} :
       IF Path \in FileNames
         THEN /\ files' = [files EXCEPT
                             ![Path] = [exists |-> TRUE,
                                        text |-> WriteFacts(Facts)]]
              /\ ioRet' = TRUE
         ELSE /\ files' = files
              /\ ioRet' = FALSE
  /\ ioCall' = "write"
  /\ OutFacts' = OutFacts
  /\ FactFileFrame

\* ReadFacts(FilePath, OutFacts) with an empty vector
ReadFactsCall ==
  /\ IF files[GlobalFacts].exists
       THEN /\ OutFacts' = ReadFacts(files[GlobalFacts].text, <<>>)
            /\ ioRet' = TRUE
       ELSE /\ OutFacts' = <<>>
            /\ ioRet' = FALSE
  /\ ioCall' = "read"
  /\ files' = files
  /\ FactFileFrame

\* IsConvergenceReached(GlobalFilePath, Facts)
IsConvergenceReachedCall ==
  /\ ioRet' = IsConvergenceReached(files[GlobalFacts], Facts)
  /\ ioCall' = "converged"
  /\ UNCHANGED <<files, OutFacts>>
  /\ FactFileFrame

NextFactFile ==
  \/ WriteFactsCall
  \/ ReadFactsCall
  \/ IsConvergenceReachedCall

SpecFactFile == InitFactFile /\ [][NextFactFile]_vars

\* The facts of a vector as a map by USR: for each USR of the vector its
\* last fact.
AsMapByUSR(Vector) ==
  [u \in {Vector[i].USR : i \in DOMAIN Vector} |->
     Vector[CHOOSE i \in DOMAIN Vector :
              /\ Vector[i].USR = u
              /\ \A j \in DOMAIN Vector : Vector[j].USR = u => j <= i]]

\* C16: a map of facts written with WriteFacts and read back with ReadFacts
\* is, as a map by USR, the map written.
C16_WriteReadRoundTrip ==
  (ioCall = "read" /\ ioRet /\ ioPrev = "write" /\
   files[GlobalFacts].text = WriteFacts(Facts))
    => AsMapByUSR(OutFacts) = Facts

\* C17: IsConvergenceReached returns true iff the file exists and the facts
\* read from it are, as a map by USR, the new facts; it leaves the file as
\* it is.
C17_ConvergedIffReadEqual ==
  [][ioCall' = "converged" =>
       /\ files' = files
       /\ ioRet' = (/\ files[GlobalFacts].exists
                    /\ AsMapByUSR(ReadFacts(files[GlobalFacts].text, <<>>))
                         = Facts)]_vars

\* IsConvergenceReached has returned true for a map that is not empty and a
\* file whose text is not the text WriteFacts writes for the map.
C17_Witness ==
  /\ ioCall = "converged"
  /\ ioRet
  /\ Facts # <<>>
  /\ files[GlobalFacts].text # WriteFacts(Facts)

(***************************************************************************)
(*            main: the reduce step and the iterative mode                 *)
(***************************************************************************)

\* llvm::cl::init(10) of --max-iterations
DefaultMaxIterations == 10

\* EXIT_FAILURE
ExitFailure == 1

\* Largest --max-iterations given on the command line.
MaxRounds == 2

\* extension(Path) == ".facts" && filename(Path) != "global.facts"
IsPartialFactsFile(Name) == Name \in {"a.facts", "b.facts"}

\* The orders in which the directory iterator may return a set of files.
IterationOrders(S) ==
  {order \in [1..Cardinality(S) -> S] :
     \A i, j \in DOMAIN order : order[i] = order[j] => i = j}

\* RunReduce: the loop over the directory, from the i-th file on; a file that
\* cannot be opened is warned about and skipped.
RECURSIVE GatherFacts(_, _, _, _, _)
GatherFacts(Dir, Denied, order, i, AllFacts) ==
  IF i > Len(order) THEN AllFacts
  ELSE IF order[i] \in Denied
    THEN GatherFacts(Dir, Denied, order, i + 1, AllFacts)
    ELSE GatherFacts(Dir, Denied, order, i + 1,
                     ReadFacts(Dir[order[i]].text, AllFacts))

\* std::ifstream In(GlobalFilePath): the file as IsConvergenceReached sees it
OpenForRead(Dir, Denied, Name) ==
  IF Name \in Denied THEN NoFile ELSE Dir[Name]

\* std::ofstream Out(FilePath).is_open(): an existing file is opened if its
\* permissions allow it, and a new one is created if the directory's do.
CanOpenForWrite(DirName, Dir, Denied, Name) ==
  IF Dir[Name].exists THEN Name \notin Denied ELSE DirName # "readonly"

\* RunReduce, after the map is merged: [Changed, Dir]. The variant reports a
\* change whenever the map is not converged.
ReduceOutcome_ChangedOnFailure(DirName, Dir, Denied, NewMap) ==
  IF IsConvergenceReached(OpenForRead(Dir, Denied, GlobalFacts), NewMap)
    THEN [Changed |-> FALSE, Dir |-> Dir]
  ELSE IF CanOpenForWrite(DirName, Dir, Denied, GlobalFacts)
    THEN [Changed |-> TRUE,
          Dir |-> [Dir EXCEPT ![GlobalFacts] =
                     [exists |-> TRUE, text |-> WriteFacts(NewMap)]]]
  ELSE [Changed |-> TRUE, Dir |-> Dir]
ReduceOutcome(DirName, Dir, Denied, NewMap) ==
  IF IsConvergenceReached(OpenForRead(Dir, Denied, GlobalFacts), NewMap)
    THEN [Changed |-> FALSE, Dir |-> Dir]
  ELSE IF CanOpenForWrite(DirName, Dir, Denied, GlobalFacts)
    THEN [Changed |-> TRUE,
          Dir |-> [Dir EXCEPT ![GlobalFacts] =
                     [exists |-> TRUE, text |-> WriteFacts(NewMap)]]]
  ELSE [Changed |-> FALSE, Dir |-> Dir]

\* The files RunReduce gathers.
PartialFiles(Dir) ==
  {n \in DOMAIN Dir : IsPartialFactsFile(n) /\ Dir[n].exists}

\* RunReduce(FactsDirOpt): the directory iterator returns the files in one of
\* the orders; Changed is what RunReduce returns.
RunReduce(Changed) ==
  IF FactsDirOpt \in {"", "missing"}
    THEN /\ Changed = FALSE
         /\ UNCHANGED <<files, MergedMap>>
    ELSE \E order \in IterationOrders(PartialFiles(files)) :
           /\ MergedMap' =
                MergeFacts(GatherFacts(files, noPerms, order, 1, <<>>))
           /\ files' =
                ReduceOutcome(FactsDirOpt, files, noPerms, MergedMap').Dir
           /\ Changed =
                ReduceOutcome(FactsDirOpt, files, noPerms, MergedMap').Changed

\* The facts and the texts of the files of the directory when main starts.
ChunkFacts ==
  {SymbolFact(Str("X"), Str("int"), FALSE, FALSE),
   SymbolFact(Str("X"), Str("unsigned"), FALSE, FALSE),
   SymbolFact(Str("X"), Str("long"), FALSE, FALSE),
   SymbolFact(Str("Y"), Str("int"), FALSE, TRUE)}
ChunkFiles ==
  {[exists |-> TRUE, text |-> FactLine(F)] : F \in ChunkFacts}
    \cup {[exists |-> TRUE, text |-> <<>>]}

\* What the translation unit runs of a round write in the facts directory:
\* the facts file of the unit, and never global.facts.
MapOutcomes(DirName, Dir) ==
  IF DirName # "facts" THEN {Dir}
  ELSE {Dir} \cup {[Dir EXCEPT !["a.facts"] = File] : File \in ChunkFiles}

\* ClangTool::run returns 0, 1 (an error) or 2 (files skipped).
ToolResults == {0, 1, 2}

InitMain ==
  /\ PhaseOpt \in {"reduce", "iterative"}
  /\ FactsDirOpt \in {"", "missing", "facts", "readonly"}
  /\ MaxIterationsOpt \in (0..MaxRounds) \cup {DefaultMaxIterations}
  /\ PhaseOpt = "reduce" => MaxIterationsOpt = DefaultMaxIterations
  /\ files \in [FileNames -> {NoFile} \cup ChunkFiles]
  /\ FactsDirOpt \in {"", "missing"} => files = [n \in FileNames |-> NoFile]
  /\ noPerms \in {{}, {"b.facts"}, {GlobalFacts}}
  /\ \A n \in noPerms : files[n].exists
  /\ Iteration = 0
  /\ ConvergenceReached = FALSE
  /\ pc = "start"
  /\ exitCode = 0
  /\ roundLog = <<>>
  /\ globalBefore = files[GlobalFacts]
  /\ MergedMap = <<>>
  /\ Facts = <<>>
  /\ OutFacts = <<>>
  /\ ioCall = "none"
  /\ ioPrev = "none"
  /\ ioRet = FALSE
  /\ IdleBoundary
  /\ IdleSolver
  /\ IdleMatcher
  /\ IdleRerun
  /\ IdleMerge
  /\ IdleRange

\* main: the condition of the while loop. The variant runs one round more.
LoopCondition_OneMore(It, Max, Reached) == It <= Max /\ ~Reached
LoopCondition(It, Max, Reached) == It < Max /\ ~Reached

\* main: `if (Ret != 0)` after Tool.run. The variant takes only 1 for a
\* failure.
ToolRunFailed_OnlyOne(Ret) == Ret = 1
ToolRunFailed(Ret) == Ret # 0

\* The variables main never changes.
MainFrame ==
  UNCHANGED <<PhaseOpt, FactsDirOpt, MaxIterationsOpt, noPerms, Facts,
              OutFacts, ioCall, ioPrev, ioRet, bvars, svars, mvars, rvars,
              gvars, xvars>>

\* main with --phase=reduce
MainReduce ==
  /\ pc = "start"
  /\ PhaseOpt = "reduce"
  /\ \E Changed \in BOOLEAN :
       /\ RunReduce(Changed)
       /\ exitCode' = IF Changed THEN 1 ELSE 0
  /\ pc' = "exit"
  /\ UNCHANGED <<Iteration, ConvergenceReached, roundLog, globalBefore>>
  /\ MainFrame

\* main with --phase=iterative, up to the loop
MainIterative ==
  /\ pc = "start"
  /\ PhaseOpt = "iterative"
  /\ IF FactsDirOpt = ""
       THEN /\ exitCode' = ExitFailure
            /\ pc' = "exit"
       ELSE /\ exitCode' = exitCode
            /\ pc' = "loop"
  /\ UNCHANGED <<files, Iteration, ConvergenceReached, roundLog,
                 globalBefore, MergedMap>>
  /\ MainFrame

\* The loop of main: Iteration++ and Tool.run(&MapFactory)
IterationToolRun ==
  /\ pc = "loop"
  /\ LoopCondition(Iteration, MaxIterationsOpt, ConvergenceReached)
  /\ Iteration' = Iteration + 1
  /\ globalBefore' = files[GlobalFacts]
  /\ files' \in MapOutcomes(FactsDirOpt, files)
  /\ \E Ret \in ToolResults :
       /\ roundLog' =
            Append(roundLog,
                   [Ret |-> Ret, Reduced |-> FALSE, Changed |-> FALSE,
                    Mapped |-> files' # files])
       /\ IF ToolRunFailed(Ret)
            THEN /\ exitCode' = Ret
                 /\ pc' = "exit"
            ELSE /\ exitCode' = exitCode
                 /\ pc' = "reduce"
  /\ UNCHANGED <<ConvergenceReached, MergedMap>>
  /\ MainFrame

\* The loop of main: RunReduce(FactsDirOpt) and what follows it
IterationReduce ==
  /\ pc = "reduce"
  /\ \E Changed \in BOOLEAN :
       /\ RunReduce(Changed)
       /\ ConvergenceReached' = ~Changed
       /\ roundLog' =
            [roundLog EXCEPT
               ![Len(roundLog)] = [@ EXCEPT !.Reduced = TRUE,
                                            !.Changed = Changed]]
  /\ pc' = "loop"
  /\ UNCHANGED <<Iteration, exitCode, globalBefore>>
  /\ MainFrame

\* main after the loop: `return 0`
IterationsDone ==
  /\ pc = "loop"
  /\ ~LoopCondition(Iteration, MaxIterationsOpt, ConvergenceReached)
  /\ exitCode' = 0
  /\ pc' = "exit"
  /\ UNCHANGED <<files, Iteration, ConvergenceReached, roundLog,
                 globalBefore, MergedMap>>
  /\ MainFrame

NextMain ==
  \/ MainReduce
  \/ MainIterative
  \/ IterationToolRun
  \/ IterationReduce
  \/ IterationsDone

SpecMain == InitMain /\ [][NextMain]_vars

\* global.facts, as IsConvergenceReached reads it, holds this map.
HoldsMap(File, M) ==
  /\ File.exists
  /\ AsMapByUSR(ReadFacts(File.text, <<>>)) = M

\* C18: the reduce step over a directory of facts exits with 1 iff the merged
\* map differs from what global.facts held, and global.facts then holds the
\* merged map; it exits with 0 iff it does not differ, and global.facts is
\* then as it was.
C18_ReduceExitCode ==
  (PhaseOpt = "reduce" /\ pc = "exit" /\ FactsDirOpt \in {"facts", "readonly"})
    => /\ exitCode \in {0, 1}
       /\ (exitCode = 1) = ~HoldsMap(globalBefore, MergedMap)
       /\ exitCode = 1 => HoldsMap(files[GlobalFacts], MergedMap)
       /\ exitCode = 0 => files[GlobalFacts] = globalBefore

\* C19: the loop of the iterative mode runs at most --max-iterations rounds,
\* no round follows a round whose reduce step reported no change, and when
\* every run of the tool returned 0 main returns only once the facts have
\* converged or the rounds are used up, and then returns 0.
C19_IterativeBounded ==
  PhaseOpt = "iterative" =>
    /\ Len(roundLog) <= MaxIterationsOpt
    /\ Iteration = Len(roundLog)
    /\ \A i \in 1..(Len(roundLog) - 1) :
         roundLog[i].Reduced /\ roundLog[i].Changed
    /\ (/\ pc = "exit"
        /\ FactsDirOpt # ""
        /\ \A i \in DOMAIN roundLog : roundLog[i].Ret = 0)
         => /\ exitCode = 0
            /\ \/ Len(roundLog) = MaxIterationsOpt
               \/ /\ roundLog # <<>>
                  /\ roundLog[Len(roundLog)].Reduced
                  /\ ~roundLog[Len(roundLog)].Changed

\* main has returned 0 after the default number of rounds, the last of which
\* changed the global facts.
C19_Witness ==
  /\ PhaseOpt = "iterative"
  /\ pc = "exit"
  /\ exitCode = 0
  /\ MaxIterationsOpt = DefaultMaxIterations
  /\ Len(roundLog) = MaxIterationsOpt
  /\ roundLog[Len(roundLog)].Changed

\* C20: a round in which the run of the tool returned a code other than 0 is
\* the last round, has no reduce step and leaves global.facts as it was, and
\* main has returned that code.
C20_ToolFailureAborts ==
  PhaseOpt = "iterative" =>
    \A i \in DOMAIN roundLog :
      roundLog[i].Ret # 0 =>
        /\ i = Len(roundLog)
        /\ ~roundLog[i].Reduced
        /\ files[GlobalFacts] = globalBefore
        /\ pc = "exit"
        /\ exitCode = roundLog[i].Ret

\* The run of the tool has returned 2 in a round that follows a round whose
\* reduce step wrote global.facts.
C20_Witness ==
  /\ PhaseOpt = "iterative"
  /\ pc = "exit"
  /\ Len(roundLog) >= 2
  /\ roundLog[Len(roundLog)].Ret = 2
  /\ roundLog[1].Changed
  /\ exitCode = 2

\* The reduce step of the last round could not write global.facts: the merged
\* map is not what global.facts holds and the file cannot be opened for
\* writing (the step leaves the directory as it was).
WriteFailedInLastRound ==
  /\ roundLog # <<>>
  /\ roundLog[Len(roundLog)].Reduced
  /\ FactsDirOpt \in {"facts", "readonly"}
  /\ ~IsConvergenceReached(OpenForRead(files, noPerms, GlobalFacts),
                           MergedMap)
  /\ ~CanOpenForWrite(FactsDirOpt, files, noPerms, GlobalFacts)

\* C21: in the iterative mode a round whose reduce step failed to write
\* global.facts does not report convergence: back at the loop condition
\* ConvergenceReached is false, so that another round runs while the bound
\* allows it.
C21_WriteFailureIsNotConvergence ==
  (PhaseOpt = "iterative" /\ pc = "loop" /\ WriteFailedInLastRound)
    => ~ConvergenceReached

(***************************************************************************)
(*            TypeSolver: edges, global facts, symbolic constraints        *)
(***************************************************************************)

\* C23: after Solve, for every edge recorded by AddEdge(Target, Source)
\* between two registered nodes that are not fixed, the resolved type of
\* Target is at least as wide as the resolved type of Source, on a cycle or
\* not.
C23_SourceWidthFlowsIntoTarget ==
  solved =>
    \A Target \in DOMAIN Nodes \cap Decls :
      \A Source \in Successors(Target) :
        (~Nodes[Target].IsFixed /\ ~Nodes[Source].IsFixed) =>
          getTypeSize(ResolvedType(Target)) >= getTypeSize(ResolvedType(Source))

\* The update Solve owes to a global constraint: the declaration is emitted
\* with a type at least as wide as the global type.
EmittedAtLeast(Decl, GlobalType) ==
  /\ Decl \in DOMAIN Updates
  /\ getTypeSize(Updates[Decl].ConstraintType) >= getTypeSize(GlobalType)

\* C24: if AddGlobalConstraint(Decl, G) was issued for a declaration that is
\* not fixed and whose declared type, registered by AddNode, is narrower than
\* G, Solve emits an update for Decl with a type at least as wide as G,
\* whether the global constraint came before AddNode or after it.
C24_GlobalConstraintCommutesWithAddNode ==
  solved =>
    \A g \in addLog.global :
      (/\ g.Decl \in addLog.added
       /\ ~Nodes[g.Decl].IsFixed
       /\ getTypeSize(DeclType(g.Decl)) < getTypeSize(g.GlobalType))
        => EmittedAtLeast(g.Decl, g.GlobalType)

\* The same for the declarations whose node AddNode created.
GlobalConstraintAfterAddNode ==
  solved =>
    \A g \in addLog.global :
      (/\ g.Decl \in addLog.added
       /\ \A h \in addLog.global : h.Decl = g.Decl => ~h.PreSeeded
       /\ ~Nodes[g.Decl].IsFixed
       /\ getTypeSize(DeclType(g.Decl)) < getTypeSize(g.GlobalType))
        => EmittedAtLeast(g.Decl, g.GlobalType)

\* The nodes when the symbolic loop of Solve stops, before the updates are
\* chosen.
FixpointNodes(nodes, adj, syms) ==
  SymbolicFixpoint(syms,
                   TarjanLoop(1, adj, [cnt |-> 0, stack |-> <<>>,
                                       ts |-> <<>>, nodes |-> nodes]).nodes,
                   0)

\* The type of the operation of a constraint on the nodes n.
OpTypeOf(n, SC) == GetWider(n[SC.LHS].ConstraintType, n[SC.RHS].ConstraintType)

\* The backward flow has reached the operand: it is at least as wide as the
\* result.
OperandCovers(n, final, SC, Operand) ==
  getTypeSize(final[Operand].ConstraintType)
    >= getTypeSize(n[SC.Result].ConstraintType)

\* C25: when Solve has run, for every symbolic constraint whose result is,
\* at the end of the symbolic loop, strictly wider than the wider of its
\* operands, every operand that is not fixed is at least as wide as the
\* result (the declarations of the constraint being registered).
C25_BackwardFlow ==
  [][(~solved /\ solved') =>
       \A i \in DOMAIN SymbolicConstraints :
         /\ {SymbolicConstraints[i].Result, SymbolicConstraints[i].LHS,
             SymbolicConstraints[i].RHS} \subseteq DOMAIN Nodes
         /\ getTypeSize(FixpointNodes(Nodes, Adjacency, SymbolicConstraints)
                       [SymbolicConstraints[i].Result].ConstraintType)
           > getTypeSize(OpTypeOf(FixpointNodes(Nodes, Adjacency,
                                                SymbolicConstraints),
                                  SymbolicConstraints[i]))
         => \A Operand \in {SymbolicConstraints[i].LHS,
                            SymbolicConstraints[i].RHS} :
              ~Nodes'[Operand].IsFixed =>
                OperandCovers(FixpointNodes(Nodes, Adjacency,
                                            SymbolicConstraints),
                              Nodes', SymbolicConstraints[i], Operand)]_vars

(***************************************************************************)
(*        TypeSolver::GetOptimalTypeForRange on 64-bit ranges               *)
(***************************************************************************)

\* Number of ValueRange::Union calls that build the range of a call.
MaxUnions == 1

\* std::numeric_limits<uint32_t>::max() as an int64_t
UInt32Max64 == <<0, 0, LimbBase - 1, LimbBase - 1>>

\* The values at the edges of the table and of the 64-bit range.
EdgeValues ==
  {Int64Min, Inc64(Int64Min),
   Neg64(Inc64(Inc64(Int64(Int32Max)))), Neg64(Inc64(Int64(Int32Max))),
   Int64(0 - Int16Max - 2), Int64(0 - Int16Max - 1),
   Int64(0 - Int8Max - 2), Int64(0 - Int8Max - 1), Int64(0 - 1),
   Int64(0), Int64(Int8Max), Int64(Int8Max + 1),
   Int64(UInt8Max), Int64(UInt8Max + 1),
   Int64(Int16Max), Int64(Int16Max + 1),
   Int64(UInt16Max), Int64(UInt16Max + 1),
   Int64(Int32Max), Inc64(Int64(Int32Max)),
   UInt32Max64, Inc64(UInt32Max64), Int64Max}

\* The ranges a caller builds: ValueRange(), ValueRange(Val),
\* ValueRange(Least, Most), and the ranges with one bound of the tests.
RangeInputs ==
  {ValueRange(a, b) : a \in EdgeValues, b \in EdgeValues}
    \cup {EmptyRange}
    \cup {[EmptyRange EXCEPT !.Min = a, !.HasMin = TRUE] : a \in EdgeValues}
    \cup {[EmptyRange EXCEPT !.Max = a, !.HasMax = TRUE] : a \in EdgeValues}

\* The callers' ranges have Least <= Most.
WellFormed(R) == (R.HasMin /\ R.HasMax) => Leq64(R.Min, R.Max)

InitRange ==
  /\ rangeArg \in {R \in RangeInputs : WellFormed(R)}
  /\ originalArg \in {"int", "long"}
  /\ rangeRet = NotCalled
  /\ rangeOps = 0
  /\ IdleBoundary
  /\ IdleSolver
  /\ IdleMatcher
  /\ IdleRerun
  /\ IdleMerge
  /\ IdleFactFiles
  /\ IdleMain

\* R.Union(Other) before the call
RangeUnionCall ==
  /\ ~rangeRet.called
  /\ rangeOps < MaxUnions
  /\ \E Other \in {ValueRange(a, a) : a \in EdgeValues} :
       rangeArg' = RangeUnion(rangeArg, Other)
  /\ rangeOps' = rangeOps + 1
  /\ UNCHANGED <<originalArg, rangeRet, bvars, svars, mvars, rvars, gvars,
                 hvars, cvars>>

\* GetOptimalTypeForRange(R, Original, Ctx)
GetOptimalTypeForRangeCall ==
  /\ ~rangeRet.called
  /\ \E o \in RangeOutcomes(rangeArg, originalArg) :
       rangeRet' = [called |-> TRUE, trap |-> o.trap, type |-> o.type]
  /\ UNCHANGED <<rangeArg, originalArg, rangeOps, bvars, svars, mvars, rvars,
                 gvars, hvars, cvars>>

NextRange ==
  \/ RangeUnionCall
  \/ GetOptimalTypeForRangeCall

SpecRange == InitRange /\ [][NextRange]_vars

\* The largest value of a signed type of Width bits, Width below 64, and the
\* smallest.
SignedMax(Width) ==
  Int64(IF Width = 8 THEN Int8Max ELSE IF Width = 16 THEN Int16Max
        ELSE Int32Max)
SignedMin(Width) == Neg64(Inc64(SignedMax(Width)))

\* The type T can represent the value v.
Represents(T, v) ==
  IF isUnsignedIntegerType(T)
    THEN /\ ~IsNeg64(v)
         /\ getTypeSize(T) < 64 =>
              \A i \in 1..4 : i <= 4 - (getTypeSize(T) + 15) \div 16 => v[i] = 0
         /\ getTypeSize(T) = 8 => v[4] <= UInt8Max
    ELSE /\ isSignedIntegerType(T)
         /\ getTypeSize(T) < 64 =>
              /\ Leq64(SignedMin(getTypeSize(T)), v)
              /\ Leq64(v, SignedMax(getTypeSize(T)))

\* C26: for a range with both bounds, Min <= Max, the call returns a type
\* that represents Min and Max (and so every value between them): one of
\* unsigned char, unsigned short, unsigned int, size_t when Min >= 0, one of
\* signed char, short, int, long long when Min < 0; for a range without
\* bounds it returns the original type.
C26_RangeTypeRepresentsRange ==
  rangeRet.called =>
    /\ (rangeArg.HasMin /\ rangeArg.HasMax /\ Leq64(rangeArg.Min, rangeArg.Max))
         => /\ ~rangeRet.trap
            /\ Represents(rangeRet.type, rangeArg.Min)
            /\ Represents(rangeRet.type, rangeArg.Max)
            /\ IF IsNeg64(rangeArg.Min)
                 THEN rangeRet.type \in {"schar", "short", "int", "longlong"}
                 ELSE rangeRet.type \in {"uchar", "ushort", "uint", getSizeType}
    /\ (~rangeArg.HasMin /\ ~rangeArg.HasMax)
         => ~rangeRet.trap /\ rangeRet.type = originalArg

\* The same for the ranges that do not start at the least 64-bit value.
RangeTypeAboveInt64Min ==
  (rangeRet.called /\ rangeArg.Min # Int64Min) => C26_RangeTypeRepresentsRange

(***************************************************************************)
(*     TypeSolver: a chain of symbolic constraints (r2 = r1 * r1, ...)     *)
(***************************************************************************)

\* Number of symbolic constraints of the chain.
MaxChain == 26

\* The declarations of the chain: r1, r2, ...
ChainDecls == 1..(MaxChain + 1)

\* The range of a variable that holds values up to 2^32.
WideRange == ValueRange(Int64(0), Inc64(UInt32Max64))

\* The solver as constructed, for the declarations of the chain.
InitSolverChain ==
  /\ Nodes = <<>>
  /\ Adjacency = [d \in ChainDecls |-> <<>>]
  /\ SymbolicConstraints = <<>>
  /\ Updates = <<>>
  /\ solved = FALSE
  /\ solverOps = 0
  /\ addLog = [fixed |-> {}, unfixedFirst |-> {}, added |-> {},
               global |-> {}]
  /\ IdleBoundary
  /\ IdleMatcher
  /\ IdleOthers

\* AddNode(r, type, false) for the next declaration of the chain: r1 is an
\* int or a long, the others are ints.
ChainAddNode ==
  /\ ~solved
  /\ SymbolicConstraints = <<>>
  /\ Cardinality(DOMAIN Nodes) <= MaxChain
  /\ \E CurrentType \in {"int", "long"} :
       /\ CurrentType = "long" => Nodes = <<>>
       /\ Nodes' = AddNodeOp(Nodes, Cardinality(DOMAIN Nodes) + 1, CurrentType,
                             FALSE, FALSE)
  /\ solverOps' = solverOps + 1
  /\ UNCHANGED <<Adjacency, SymbolicConstraints, Updates, solved, addLog,
                 bvars, mvars, ovars>>

\* AddRangeConstraint(r1, [0, 2^32])
ChainAddRangeConstraint ==
  /\ ~solved
  /\ 1 \in DOMAIN Nodes
  /\ Nodes[1].ComputedRange = EmptyRange
  /\ Nodes' = AddRangeConstraintOp(Nodes, 1, WideRange)
  /\ solverOps' = solverOps + 1
  /\ UNCHANGED <<Adjacency, SymbolicConstraints, Updates, solved, addLog,
                 bvars, mvars, ovars>>

\* AddSymbolicConstraint(r(k+1), Mul, rk, rk) for the next link of the chain:
\* the links are recorded from r1 upwards, or from the last declaration
\* downwards.
ChainAddSymbolicConstraint ==
  /\ ~solved
  /\ \E k \in 1..(Cardinality(DOMAIN Nodes) - 1) :
       /\ \A i \in DOMAIN SymbolicConstraints : SymbolicConstraints[i].LHS # k
       /\ IF SymbolicConstraints = <<>>
            THEN k \in {1, Cardinality(DOMAIN Nodes) - 1}
            ELSE k - SymbolicConstraints[Len(SymbolicConstraints)].LHS
                   \in {0 - 1, 1}
       /\ SymbolicConstraints' =
            AddSymbolicConstraintOp(SymbolicConstraints, k + 1, "Mul", k, k)
  /\ solverOps' = solverOps + 1
  /\ UNCHANGED <<Nodes, Adjacency, Updates, solved, addLog, bvars, mvars,
                 ovars>>

NextSolverChain ==
  \/ ChainAddNode
  \/ ChainAddRangeConstraint
  \/ ChainAddSymbolicConstraint
  \/ CallSolve

SpecSolverChain == InitSolverChain /\ [][NextSolverChain]_vars

\* A recorded constraint is satisfied on the types of result and operands.
Satisfied(n, SC) ==
  /\ getTypeSize(n[SC.Result].ConstraintType)
       >= getTypeSize(n[SC.LHS].ConstraintType)
  /\ getTypeSize(n[SC.Result].ConstraintType)
       >= getTypeSize(n[SC.RHS].ConstraintType)
  /\ (n[SC.LHS].IsPtrOffset \/ n[SC.RHS].IsPtrOffset) =>
       getTypeSize(n[SC.Result].ConstraintType)
         >= getTypeSize(getPointerDiffType)

\* C27: when Solve has returned, every recorded symbolic constraint is
\* satisfied on the final types: the result is at least as wide as both
\* operands, and at least as wide as ptrdiff_t if an operand is a pointer
\* offset, for any number of constraints recorded in any order.
C27_SymbolicConstraintsSatisfied ==
  solved =>
    \A i \in DOMAIN SymbolicConstraints :
      Satisfied(Nodes, SymbolicConstraints[i])

\* The same for the solver calls without a range: what the cut of the loop
\* after 25 passes leaves.
SatisfiedWithoutRanges ==
  (solved /\ \A d \in DOMAIN Nodes : Nodes[d].ComputedRange = EmptyRange)
    => C27_SymbolicConstraintsSatisfied

\* One more pass of the symbolic loop over the nodes n changes nothing.
Quiescent(n, syms) ==
  ~SymbolicPass(syms, 1, [nodes |-> n, Changed |-> FALSE]).Changed

\* The last loop of Solve has left the operands of SC at the types n holds.
OperandsKept(n, final, SC) ==
  /\ final[SC.LHS].ConstraintType = n[SC.LHS].ConstraintType
  /\ final[SC.RHS].ConstraintType = n[SC.RHS].ConstraintType

\* The constraints Solve owes on the final types, n being the nodes at the
\* end of the symbolic loop.
SatisfiedWhenQuiescent(n, final, syms) ==
  Quiescent(n, syms) =>
    \A i \in DOMAIN syms :
      OperandsKept(n, final, syms[i]) => Satisfied(final, syms[i])

\* C27, amended: when Solve returns and its symbolic loop has stopped on a
\* pass without change, every recorded symbolic constraint whose operands
\* the last loop of Solve has not widened from their ranges is satisfied on
\* the final types.
C27_SatisfiedWhenLoopQuiescent ==
  [][(~solved /\ solved') =>
       SatisfiedWhenQuiescent(
         FixpointNodes(Nodes, Adjacency, SymbolicConstraints), Nodes',
         SymbolicConstraints)]_vars

\* Solve has returned on a chain of three or more constraints recorded from
\* the last declaration downwards, and the long of r1 has reached the result
\* recorded first.
C27_Witness ==
  /\ solved
  /\ Len(SymbolicConstraints) >= 3
  /\ SymbolicConstraints[1].LHS > SymbolicConstraints[2].LHS
  /\ SymbolicConstraints[Len(SymbolicConstraints)].LHS = 1
  /\ Nodes[1].OriginalType = "long"
  /\ Nodes[SymbolicConstraints[1].Result].OriginalType = "int"
  /\ Nodes[SymbolicConstraints[1].Result].ConstraintType = "long"

\* The declarations registered through AddNode or AddGlobalConstraint.
Registered == addLog.added \cup {g.Decl : g \in addLog.global}

\* C28: every key of the update map of Solve is a declaration registered
\* earlier through AddNode or AddGlobalConstraint, every emitted NodeState
\* carries that declaration, which is not null, and no call naming a
\* declaration that is not registered creates a node.
C28_OnlyRegisteredDeclarations ==
  /\ DOMAIN Nodes \subseteq Registered
  /\ \A d \in DOMAIN Updates :
       /\ d \in Registered
       /\ Updates[d].Decl = d
       /\ Updates[d].Decl # NullDeclPtr

\* The same up to the call of Solve.
OnlyRegisteredBeforeSolve == ~solved => C28_OnlyRegisteredDeclarations

(***************************************************************************)
(*      TypeCorrectMatcher: specifiers, casts and overlapping edits        *)
(***************************************************************************)

\* The declaration of a variable is rewritten to another type in the output.
DeclRewritten(v) == OutputType(v) # InputType(v)

\* The edits of the output that replace a recorded specifier of a variable,
\* and those that remove a recorded explicit cast of it.
SpecifierEditsOf(v) == {E \in Written : E.kind = "spec" /\ E.decl = v}
CastRemovalsOf(v) == {E \in Written : E.kind = "uncast" /\ E.loc.at[2] = v}

\* C29: a recorded specifier of a variable is rewritten only if the
\* declaration of the variable is rewritten in the same run; when the
\* rewrite of the declaration is skipped, no specifier of the variable is
\* changed and no recorded explicit cast of it is removed.
C29_SpecifiersAndCastsOnlyWithDeclaration ==
  phase = "done" =>
    \A v \in VarDecls :
      ~DeclRewritten(v) => (SpecifierEditsOf(v) = {} /\ CastRemovalsOf(v) = {})

\* The part of C29 that the loop of onEndOfTranslationUnit keeps: a variable
\* that is not in WidestTypeMap, or that the negative-literal block skips,
\* has no specifier changed and no cast removed.
SkippedBeforeResolve(v) ==
  \/ v \notin DOMAIN WidestTypeMap
  \/ (v \in VariablesWithNegativeValues
      /\ isUnsignedIntegerType(WidestTypeMap[v].Type))
NothingChangedWhenBlocked ==
  phase = "done" =>
    \A v \in VarDecls :
      SkippedBeforeResolve(v) =>
        (SpecifierEditsOf(v) = {} /\ CastRemovalsOf(v) = {})

\* The source range of a DeclStmt covers the written type and the
\* initializer of every variable the statement declares.
RangeCovers(Outer, Inner) ==
  /\ Outer.at[1] = "stmt"
  /\ Inner.at[1] \in {"type", "init"}
  /\ Inner.file = Outer.file
  /\ \E k \in DOMAIN StmtDecls(Outer.at[2]) :
       StmtDecls(Outer.at[2])[k] = Inner.at[2]
RangesOverlap(L1, L2) ==
  L1 = L2 \/ RangeCovers(L1, L2) \/ RangeCovers(L2, L1)

\* C22: within one translation unit no two edits of the output, of whatever
\* kinds (cast injection, type replacement, multi-declaration split, cast
\* removal, specifier replacement), cover overlapping source ranges.
C22_NoOverlappingEdits ==
  phase = "done" =>
    \A E1, E2 \in Written :
      E1.kind # E2.kind => ~RangesOverlap(E1.loc, E2.loc)

\* The part of C22 that holds: the edits other than the replacement of a
\* whole DeclStmt are at pairwise different places.
NoOverlapWithoutMultiDecl ==
  phase = "done" =>
    \A E1, E2 \in Written :
      (E1.kind # E2.kind /\ E1.kind # "multi" /\ E2.kind # "multi") =>
        ~RangesOverlap(E1.loc, E2.loc)

(***************************************************************************)
(*                 main: a reduce step after a reduce step                 *)
(***************************************************************************)

\* Round k of the loop wrote global.facts and reported a change, and the
\* translation unit runs of round k + 1 left the facts files of the units as
\* they were before its reduce step ran.
ReducedTwice(k) ==
  /\ k + 1 \in DOMAIN roundLog
  /\ roundLog[k].Reduced
  /\ roundLog[k].Changed
  /\ ~roundLog[k + 1].Mapped
  /\ roundLog[k + 1].Reduced

\* C30: a reduce step that follows one that reported a change and wrote
\* global.facts, over the same facts files of the units, reports no change
\* and leaves global.facts as it is; the loop then reports convergence in the
\* round after the write.
C30_ReduceIdempotent ==
  (PhaseOpt = "iterative" /\ pc \in {"loop", "exit"}) =>
    \A k \in DOMAIN roundLog :
      ReducedTwice(k) =>
        /\ ~roundLog[k + 1].Changed
        /\ (k + 1 = Len(roundLog) =>
              (files[GlobalFacts] = globalBefore /\ ConvergenceReached))

\* The facts files of the units hold no two facts of one symbol, so that the
\* merged map is the same in whatever order the directory is read.
OneFactPerSymbol ==
  \A m, n \in PartialFiles(files) :
    \A F \in ChunkFacts, G \in ChunkFacts :
      (files[m].text = FactLine(F) /\ files[n].text = FactLine(G)
       /\ F.USR = G.USR) => (m = n \/ F = G)

\* The part of C30 that holds: with one fact per symbol the second reduce
\* step reports no change.
ReduceIdempotentWithoutConflict ==
  (PhaseOpt = "iterative" /\ pc \in {"loop", "exit"} /\ OneFactPerSymbol)
    => \A k \in DOMAIN roundLog :
         (ReducedTwice(k) /\ k + 1 = Len(roundLog)) =>
           /\ ~roundLog[k + 1].Changed
           /\ files[GlobalFacts] = globalBefore
           /\ ConvergenceReached

====
